---- MODULE Spec2Model ----
(***************************************************************************)
(* DAT angle practice: the test-session state machine (testReducer and     *)
(* the TestProvider effects that drive it), the scoring functions, the     *)
(* question generator and the localStorage functions.                      *)
(*                                                                         *)
(* Conventions                                                             *)
(*   - JavaScript arrays are TLA+ sequences; a 0-based index i of the      *)
(*     source is position i + 1 here.  currentQuestionIndex keeps its      *)
(*     0-based value.                                                      *)
(*   - A userAnswers slot is a record: NullAnswer for null, Answer(ids)    *)
(*     for an id list.  A null session is NoSession.  A null endTime is    *)
(*     NullTime.                                                           *)
(*   - Date.now() is the variable now, moved forward by AdvanceClock.      *)
(*   - React commits a dispatch (reducer, render, effect cleanup and       *)
(*     re-run) before the next event is handled: each action below is the  *)
(*     reducer step followed by the provider's effects.                    *)
(***************************************************************************)
EXTENDS Integers, Sequences, FiniteSets, TLC

VARIABLES
    state,      \* TestState held by useReducer
    timer,      \* the interval armed by the timer effect, with the timeRemaining its closure captured
    now,        \* the wall clock read by Date.now()
    last        \* the action most recently dispatched: its type, the number of
                \* currentSelections it found, its numeric payload (0 if none)
                \* and the store function its persistence effect called
    ,probe      \* a call of a function on its own: its name, its arguments
                \* (for a store function the localStorage it found) and, once
                \* it has returned, its result
    ,storage    \* localStorage: the history item, the settings, the length
                \* a stored history text can have before setItem throws
                \* QuotaExceededError (0: no limit), the current-session item
                \* and what a call of localStorage does at present
    ,saved      \* the sessions saveTestSession has saved so far, whether a
                \* call made the retry after a QuotaExceededError, and
                \* the result of the latest call
    ,twin       \* the TestState and the localStorage of a second run of the
                \* provider, dispatched the same actions over a failing store

vars == <<state, timer, now, last, probe, storage, saved, twin>>

-----------------------------------------------------------------------------
(* Program constants *)

NumQuestions == 15
LastQuestionIndex == 14
TotalTime == 600
MaxSelections == 4
NullTime == 0

(* Bounds of the model *)

\* angle ids that can be dispatched: 1..4 are the ids of a question's four
\* angles, the ids above 4 belong to no angle of the question
NumIds == 5
\* the clock takes the values 1..MaxNow
MaxNow == 2
\* the interval callback is enumerated for captured times up to MaxTick, and
\* UPDATE_TIMER is dispatched directly with payloads -1..MaxTick; a direct
\* dispatch of a small payload stands for the ticks that lead down to it
MaxTick == 2
\* a recovered session (LOAD_SESSION payload) holds up to MaxRecovered answers
MaxRecovered == 1

\* saveTestSession is called up to MaxSaves times
MaxSaves == 4
\* the settings in localStorage configure a maximum of 1..MaxStored sessions
MaxStored == 3
\* localStorage holds a history text of up to 1..MaxQuota times the JSON text
\* of a session without recorded answers, or has no limit
MaxQuota == 2

\* entries of a stored history list read by getTestHistory
MaxEntries == 2

\* failing attempts of the generator's retry loop before one that succeeds
MaxFailed == 2

\* Math.random() returns one of the RandDen values k / RandDen, k in 0..RandDen-1
RandDen == 3

Ids == 1..NumIds
TimerPayloads == -1..MaxTick

-----------------------------------------------------------------------------
(* Values *)

NoSession == [isNull |-> TRUE]
NullAnswer == [isNull |-> TRUE, ids |-> <<>>]
Answer(ids) == [isNull |-> FALSE, ids |-> ids]

Range(seq) == {seq[i] : i \in 1..Len(seq)}

\* The battery: question ids 1..15; the ground-truth order alternates so that
\* one id list is right for some questions and wrong for others.
correctOrderOf(qid) == IF qid % 2 = 1 THEN <<1, 2, 3, 4>> ELSE <<2, 1, 4, 3>>

Battery == [i \in 1..NumQuestions |-> [id |-> i, correctOrder |-> correctOrderOf(i)]]

initialState ==
    [currentSession |-> NoSession,
     currentQuestionIndex |-> 0,
     timeRemaining |-> TotalTime,
     isActive |-> FALSE,
     currentSelections |-> <<>>]

\* Array.prototype.indexOf: 0-based index of the first occurrence, -1 if none
indexOf(seq, x) ==
    IF \E i \in 1..Len(seq) : seq[i] = x
    THEN (CHOOSE i \in 1..Len(seq) : seq[i] = x /\ \A j \in 1..(i - 1) : seq[j] # x) - 1
    ELSE -1

\* Array.prototype.slice(from, to) with 0 <= from, 0-based, end exclusive
slice(seq, from, to) ==
    SubSeq(seq, from + 1, IF to < Len(seq) THEN to ELSE Len(seq))

\* variant: no clamp at zero
max0_noClamp(n) == n

\* Math.max(0, n)
max0(n) == IF n > 0 THEN n ELSE 0

-----------------------------------------------------------------------------
(* testReducer, one operator per case *)

\* variant: the question index of the previous test carries over
START_TEST_keepsIndex(s, session) ==
    [s EXCEPT !.currentSession = session,
              !.timeRemaining = TotalTime,
              !.isActive = TRUE,
              !.currentSelections = <<>>]

START_TEST(s, session) ==
    [s EXCEPT !.currentSession = session,
              !.currentQuestionIndex = 0,
              !.timeRemaining = TotalTime,
              !.isActive = TRUE,
              !.currentSelections = <<>>]

\* variant: a re-click keeps the re-clicked id and drops only the later picks
SELECT_ANGLE_keepsReclicked(s, angleId) ==
    LET currentSelections == s.currentSelections
        existingIndex == indexOf(currentSelections, angleId)
    IN  IF existingIndex # -1
        THEN [s EXCEPT !.currentSelections = slice(currentSelections, 0, existingIndex + 1)]
        ELSE IF Len(currentSelections) >= MaxSelections
             THEN s
             ELSE [s EXCEPT !.currentSelections = Append(currentSelections, angleId)]

\* variant: the cap of four selections is missing
SELECT_ANGLE_noCap(s, angleId) ==
    LET currentSelections == s.currentSelections
        existingIndex == indexOf(currentSelections, angleId)
    IN  IF existingIndex # -1
        THEN [s EXCEPT !.currentSelections = slice(currentSelections, 0, existingIndex)]
        ELSE [s EXCEPT !.currentSelections = Append(currentSelections, angleId)]

\* variant: an id that is already selected is appended again
SELECT_ANGLE_allowsRepeat(s, angleId) ==
    IF Len(s.currentSelections) >= MaxSelections
    THEN s
    ELSE [s EXCEPT !.currentSelections = Append(s.currentSelections, angleId)]

SELECT_ANGLE(s, angleId) ==
    LET currentSelections == s.currentSelections
        existingIndex == indexOf(currentSelections, angleId)
    IN  IF existingIndex # -1
        THEN [s EXCEPT !.currentSelections = slice(currentSelections, 0, existingIndex)]
        ELSE IF Len(currentSelections) >= MaxSelections
             THEN s
             ELSE [s EXCEPT !.currentSelections = Append(currentSelections, angleId)]

\* variant: only the deselected id is removed, the later picks stay
DESELECT_ANGLE_removesOne(s, angleId) ==
    [s EXCEPT !.currentSelections = SelectSeq(s.currentSelections, LAMBDA x : x # angleId)]

DESELECT_ANGLE(s, angleId) ==
    LET currentSelections == s.currentSelections
        index == indexOf(currentSelections, angleId)
    IN  IF index # -1
        THEN [s EXCEPT !.currentSelections = slice(currentSelections, 0, index)]
        ELSE s

CLEAR_SELECTIONS(s) ==
    [s EXCEPT !.currentSelections = <<>>]

\* variant: the last-question test is off by one (> instead of >=)
NEXT_QUESTION_offByOne(s, t) ==
    IF s.currentSession = NoSession \/ Len(s.currentSelections) # MaxSelections
    THEN s
    ELSE
        LET ua == s.currentSession.userAnswers
            updatedSession ==
                [s.currentSession EXCEPT !.userAnswers =
                    slice(ua, 0, s.currentQuestionIndex)
                    \o <<Answer(s.currentSelections)>>
                    \o slice(ua, s.currentQuestionIndex + 1, Len(ua))]
            isLastQuestion == s.currentQuestionIndex > LastQuestionIndex
        IN  IF isLastQuestion
            THEN [s EXCEPT !.currentSession =
                               [updatedSession EXCEPT !.endTime = t, !.isCompleted = TRUE],
                           !.isActive = FALSE,
                           !.currentSelections = <<>>]
            ELSE [s EXCEPT !.currentSession = updatedSession,
                           !.currentQuestionIndex = s.currentQuestionIndex + 1,
                           !.currentSelections = <<>>]

\* variant: advancing keeps the selections of the question that was left
NEXT_QUESTION_keepsSelections(s, t) ==
    IF s.currentSession = NoSession \/ Len(s.currentSelections) # MaxSelections
    THEN s
    ELSE
        LET ua == s.currentSession.userAnswers
            updatedSession ==
                [s.currentSession EXCEPT !.userAnswers =
                    slice(ua, 0, s.currentQuestionIndex)
                    \o <<Answer(s.currentSelections)>>
                    \o slice(ua, s.currentQuestionIndex + 1, Len(ua))]
            isLastQuestion == s.currentQuestionIndex >= LastQuestionIndex
        IN  IF isLastQuestion
            THEN [s EXCEPT !.currentSession =
                               [updatedSession EXCEPT !.endTime = t, !.isCompleted = TRUE],
                           !.isActive = FALSE,
                           !.currentSelections = <<>>]
            ELSE [s EXCEPT !.currentSession = updatedSession,
                           !.currentQuestionIndex = s.currentQuestionIndex + 1]

\* variant: advancing moves two questions on
NEXT_QUESTION_skipsOne(s, t) ==
    IF s.currentSession = NoSession \/ Len(s.currentSelections) # MaxSelections
    THEN s
    ELSE
        LET ua == s.currentSession.userAnswers
            updatedSession ==
                [s.currentSession EXCEPT !.userAnswers =
                    slice(ua, 0, s.currentQuestionIndex)
                    \o <<Answer(s.currentSelections)>>
                    \o slice(ua, s.currentQuestionIndex + 1, Len(ua))]
            isLastQuestion == s.currentQuestionIndex >= LastQuestionIndex
        IN  IF isLastQuestion
            THEN [s EXCEPT !.currentSession =
                               [updatedSession EXCEPT !.endTime = t, !.isCompleted = TRUE],
                           !.isActive = FALSE,
                           !.currentSelections = <<>>]
            ELSE [s EXCEPT !.currentSession = updatedSession,
                           !.currentQuestionIndex =
                               IF s.currentQuestionIndex + 2 <= LastQuestionIndex
                               THEN s.currentQuestionIndex + 2
                               ELSE LastQuestionIndex,
                           !.currentSelections = <<>>]

NEXT_QUESTION(s, t) ==
    IF s.currentSession = NoSession \/ Len(s.currentSelections) # MaxSelections
    THEN s
    ELSE
        LET ua == s.currentSession.userAnswers
            updatedSession ==
                [s.currentSession EXCEPT !.userAnswers =
                    slice(ua, 0, s.currentQuestionIndex)
                    \o <<Answer(s.currentSelections)>>
                    \o slice(ua, s.currentQuestionIndex + 1, Len(ua))]
            isLastQuestion == s.currentQuestionIndex >= LastQuestionIndex
        IN  IF isLastQuestion
            THEN [s EXCEPT !.currentSession =
                               [updatedSession EXCEPT !.endTime = t, !.isCompleted = TRUE],
                           !.isActive = FALSE,
                           !.currentSelections = <<>>]
            ELSE [s EXCEPT !.currentSession = updatedSession,
                           !.currentQuestionIndex = s.currentQuestionIndex + 1,
                           !.currentSelections = <<>>]

\* variant: the current selections are written even when there are none
SUBMIT_TEST_alwaysWrites(s, t) ==
    IF s.currentSession = NoSession
    THEN s
    ELSE
        LET ua == s.currentSession.userAnswers
            updatedAnswers ==
                [ua EXCEPT ![s.currentQuestionIndex + 1] = Answer(s.currentSelections)]
        IN  [s EXCEPT !.currentSession =
                          [s.currentSession EXCEPT !.userAnswers = updatedAnswers,
                                                   !.endTime = t,
                                                   !.isCompleted = TRUE],
                      !.isActive = FALSE,
                      !.currentSelections = <<>>]

SUBMIT_TEST(s, t) ==
    IF s.currentSession = NoSession
    THEN s
    ELSE
        LET ua == s.currentSession.userAnswers
            updatedAnswers ==
                IF Len(s.currentSelections) > 0
                THEN [ua EXCEPT ![s.currentQuestionIndex + 1] = Answer(s.currentSelections)]
                ELSE ua
        IN  [s EXCEPT !.currentSession =
                          [s.currentSession EXCEPT !.userAnswers = updatedAnswers,
                                                   !.endTime = t,
                                                   !.isCompleted = TRUE],
                      !.isActive = FALSE,
                      !.currentSelections = <<>>]

\* variant: a countdown that reaches 0 deactivates the test
UPDATE_TIMER_stopsAtZero(s, seconds) ==
    [s EXCEPT !.timeRemaining = max0(seconds),
              !.isActive = s.isActive /\ max0(seconds) > 0]

UPDATE_TIMER(s, seconds) ==
    [s EXCEPT !.timeRemaining = max0(seconds)]

\* variant: the session is completed and the test stays active
END_TEST_staysActive(s, t) ==
    IF s.currentSession = NoSession
    THEN s
    ELSE [s EXCEPT !.currentSession =
                       [s.currentSession EXCEPT !.endTime = t, !.isCompleted = TRUE],
                   !.currentSelections = <<>>]

\* variant: without a session the test is still deactivated and cleared
END_TEST_noGuard(s, t) ==
    IF s.currentSession = NoSession
    THEN [s EXCEPT !.isActive = FALSE, !.currentSelections = <<>>]
    ELSE [s EXCEPT !.currentSession =
                       [s.currentSession EXCEPT !.endTime = t, !.isCompleted = TRUE],
                   !.isActive = FALSE,
                   !.currentSelections = <<>>]

\* variant: the selections in progress are recorded, as SUBMIT_TEST does
END_TEST_recordsSelections(s, t) ==
    IF s.currentSession = NoSession
    THEN s
    ELSE
        LET ua == s.currentSession.userAnswers
            updatedAnswers ==
                IF Len(s.currentSelections) > 0
                THEN [ua EXCEPT ![s.currentQuestionIndex + 1] = Answer(s.currentSelections)]
                ELSE ua
        IN  [s EXCEPT !.currentSession =
                          [s.currentSession EXCEPT !.userAnswers = updatedAnswers,
                                                   !.endTime = t,
                                                   !.isCompleted = TRUE],
                      !.isActive = FALSE,
                      !.currentSelections = <<>>]

END_TEST(s, t) ==
    IF s.currentSession = NoSession
    THEN s
    ELSE [s EXCEPT !.currentSession =
                       [s.currentSession EXCEPT !.endTime = t, !.isCompleted = TRUE],
                   !.isActive = FALSE,
                   !.currentSelections = <<>>]

\* variant: a test that is running stays active over the loaded session
LOAD_SESSION_staysActive(s, session) ==
    [s EXCEPT !.currentSession = session,
              !.currentQuestionIndex = 0,
              !.timeRemaining = TotalTime,
              !.currentSelections = <<>>]

\* variant: the question index of the previous state carries over
LOAD_SESSION_keepsIndex(s, session) ==
    [s EXCEPT !.currentSession = session,
              !.timeRemaining = TotalTime,
              !.isActive = FALSE,
              !.currentSelections = <<>>]

\* variant: the loaded session is resumed as an active test
LOAD_SESSION_resumes(s, session) ==
    [s EXCEPT !.currentSession = session,
              !.currentQuestionIndex = 0,
              !.timeRemaining = TotalTime,
              !.isActive = TRUE,
              !.currentSelections = <<>>]

LOAD_SESSION(s, session) ==
    [s EXCEPT !.currentSession = session,
              !.currentQuestionIndex = 0,
              !.timeRemaining = TotalTime,
              !.isActive = FALSE,
              !.currentSelections = <<>>]

\* variant: the countdown is not reset
RESET_TEST_keepsTime(s) == [initialState EXCEPT !.timeRemaining = s.timeRemaining]

RESET_TEST(s) == initialState

-----------------------------------------------------------------------------
(* Scoring *)

\* variant: the two arrays are compared as sets
arraysEqual_asSets(arr1, arr2) == Range(arr1) = Range(arr2)

arraysEqual(arr1, arr2) ==
    IF Len(arr1) # Len(arr2)
    THEN FALSE
    ELSE \A i \in 1..Len(arr1) : arr1[i] = arr2[i]

\* variant: no length check, and only the entries the user gave are compared
isAnswerCorrect_prefixOnly(question, userAnswer) ==
    IF userAnswer.isNull
    THEN FALSE
    ELSE \A i \in 1..Len(userAnswer.ids) :
            i <= Len(question.correctOrder) /\ userAnswer.ids[i] = question.correctOrder[i]

isAnswerCorrect(question, userAnswer) ==
    IF userAnswer.isNull \/ Len(userAnswer.ids) # MaxSelections
    THEN FALSE
    ELSE arraysEqual(userAnswer.ids, question.correctOrder)

RECURSIVE countCorrect(_, _)
\* the loop of calculateScore from 0-based index i on
countCorrect(session, i) ==
    IF i >= Len(session.questions)
    THEN 0
    ELSE (IF isAnswerCorrect(session.questions[i + 1], session.userAnswers[i + 1]) THEN 1 ELSE 0)
         + countCorrect(session, i + 1)

\* every session of the model carries its questions, so the !session.questions
\* arm of the guard is never taken
\* variant: the completion guard is missing
calculateScore_ignoresCompleted(session) == countCorrect(session, 0)

calculateScore(session) ==
    IF ~session.isCompleted
    THEN 0
    ELSE countCorrect(session, 0)

\* no scoring call in progress
NoProbe == [fn |-> "none"]

-----------------------------------------------------------------------------
(* angleGenerator.  Angle magnitudes are integers in hundredths of a degree *)
(* (18000 is 180 degrees); a Math.random() result is its numerator k over  *)
(* RandDen, and the calls of Math.random() consume a stream of such        *)
(* numerators in order.                                                    *)

\* ANGLE_CONFIG, degrees in hundredths
MIN_DELTA == 200
MAX_DELTA == 500
ACUTE_MIN == 1500
ACUTE_MAX == 8500
OBTUSE_MIN == 9500
OBTUSE_MAX == 16500
ARM_LENGTH_MIN == 60
ARM_LENGTH_MAX == 160
ROTATION_MAX == 359
MAX_GENERATION_ATTEMPTS == 50
UNIQUENESS_THRESHOLD == 50

Draws == 0..(RandDen - 1)

\* the draw at position pos of a stream; a stream repeats when it is used up
draw(stream, pos) == stream[((pos - 1) % Len(stream)) + 1]

\* Math.random() * width, cut to a whole number of units
scaled(k, width) == (k * width) \div RandDen

\* Math.round(Math.random() * width)
scaledRound(k, width) == (2 * k * width + RandDen) \div (2 * RandDen)

\* Array.prototype.sort with the comparator a.key - b.key, keys[i] being the
\* key of seq[i]: ascending and stable
sortAscending(seq, keys) ==
    LET rank(i) == Cardinality({j \in 1..Len(seq) :
                        \/ keys[j] < keys[i]
                        \/ (keys[j] = keys[i] /\ j < i)}) + 1
    IN  [p \in 1..Len(seq) |-> seq[CHOOSE i \in 1..Len(seq) : rank(i) = p]]

\* Array.prototype.sort with the comparator b.key - a.key: descending and stable
sortDescending(seq, keys) ==
    LET rank(i) == Cardinality({j \in 1..Len(seq) :
                        \/ keys[j] > keys[i]
                        \/ (keys[j] = keys[i] /\ j < i)}) + 1
    IN  [p \in 1..Len(seq) |-> seq[CHOOSE i \in 1..Len(seq) : rank(i) = p]]

degreesOf(angles) == [i \in 1..Len(angles) |-> angles[i].degrees]

\* the two draws of selectBaseAngle from position pos on: [value, pos]
selectBaseAngle(stream, pos) ==
    LET selectedType == scaled(draw(stream, pos), 3)
        r == draw(stream, pos + 1)
    IN  [value |-> CASE selectedType = 0 -> ACUTE_MIN + scaled(r, ACUTE_MAX - ACUTE_MIN)
                     [] selectedType = 1 -> OBTUSE_MIN + scaled(r, OBTUSE_MAX - OBTUSE_MIN)
                     [] OTHER -> 7000 + scaled(r, 4000),
         pos |-> pos + 2]

RECURSIVE addAngles(_, _, _, _, _)
\* the first loop of generateAngleSet from its iteration i on
addAngles(angles, i, baseAngle, stream, pos) ==
    IF i >= 4
    THEN [angles |-> angles, pos |-> pos]
    ELSE LET delta == MIN_DELTA + scaled(draw(stream, pos), MAX_DELTA - MIN_DELTA)
             newAngle == angles[i] + delta
             backwardDelta == MIN_DELTA + scaled(draw(stream, pos + 1), MAX_DELTA - MIN_DELTA)
         IN  IF newAngle > 18000
             THEN addAngles(Append(angles, max0(baseAngle - backwardDelta * i)),
                            i + 1, baseAngle, stream, pos + 2)
             ELSE addAngles(Append(angles, newAngle), i + 1, baseAngle, stream, pos + 1)

RECURSIVE separateAngles(_, _, _, _)
\* the uniqueness loop of generateAngleSet from its 0-based index i on
separateAngles(angles, i, stream, pos) ==
    IF i >= Len(angles)
    THEN [angles |-> angles, pos |-> pos]
    ELSE IF angles[i + 1] - angles[i] < UNIQUENESS_THRESHOLD
         THEN separateAngles(
                  [angles EXCEPT ![i + 1] = angles[i] + UNIQUENESS_THRESHOLD
                                              + scaled(draw(stream, pos), 100)],
                  i + 1, stream, pos + 1)
         ELSE separateAngles(angles, i + 1, stream, pos)

generateAngleSet(baseAngle, stream, pos) ==
    LET added == addAngles(<<baseAngle>>, 1, baseAngle, stream, pos)
    IN  separateAngles(sortAscending(added.angles, added.angles), 1, stream, added.pos)

validateAngleSet(angles) ==
    IF Len(angles) # 4
    THEN FALSE
    ELSE LET sortedAngles == sortAscending(angles, angles)
         IN  IF \E i \in 2..Len(sortedAngles) :
                    sortedAngles[i] - sortedAngles[i - 1] < UNIQUENESS_THRESHOLD
             THEN FALSE
             ELSE \A i \in 1..Len(angles) : angles[i] >= 0 /\ angles[i] <= 18000

\* addVisualProperties(degrees, index) with its three draws from position pos
\* on; the id is the pair of the index and Math.round(degrees * 100)
addVisualProperties(degrees, index, stream, pos) ==
    [id |-> <<index, degrees>>,
     degrees |-> ((degrees + 5) \div 10) * 10,
     rotation |-> scaled(draw(stream, pos), ROTATION_MAX),
     armLength1 |-> ARM_LENGTH_MIN + scaledRound(draw(stream, pos + 1), ARM_LENGTH_MAX - ARM_LENGTH_MIN),
     armLength2 |-> ARM_LENGTH_MIN + scaledRound(draw(stream, pos + 2), ARM_LENGTH_MAX - ARM_LENGTH_MIN)]

RECURSIVE shuffleFrom(_, _, _, _)
\* the Fisher-Yates loop of shuffleArray from its 0-based index i down
shuffleFrom(shuffled, i, stream, pos) ==
    IF i <= 0
    THEN shuffled
    ELSE LET j == scaled(draw(stream, pos), i + 1)
         IN  shuffleFrom([shuffled EXCEPT ![i + 1] = shuffled[j + 1],
                                          ![j + 1] = shuffled[i + 1]],
                         i - 1, stream, pos + 1)

shuffleArray(array, stream, pos) == shuffleFrom(array, Len(array) - 1, stream, pos)

RECURSIVE findAngleSet(_, _, _, _)
\* the retry loop of generateQuestion, angleSet being the set of the last
\* failed attempt: [angleSet, attempts, pos]
findAngleSet(attempts, angleSet, stream, pos) ==
    IF attempts >= MAX_GENERATION_ATTEMPTS
    THEN [angleSet |-> angleSet, attempts |-> attempts, pos |-> pos]
    ELSE LET base == selectBaseAngle(stream, pos)
             set == generateAngleSet(base.value, stream, base.pos)
         IN  IF validateAngleSet(set.angles)
             THEN [angleSet |-> set.angles, attempts |-> attempts, pos |-> set.pos]
             ELSE findAngleSet(attempts + 1, set.angles, stream, set.pos)

\* variant: the ids are ordered by descending degrees
correctOrderOfAngles_descending(angles) ==
    LET sorted == sortDescending(angles, degreesOf(angles))
    IN  [i \in 1..Len(sorted) |-> sorted[i].id]

\* [...angles].sort((a, b) => a.degrees - b.degrees).map(angle => angle.id)
correctOrderOfAngles(angles) ==
    LET sorted == sortAscending(angles, degreesOf(angles))
    IN  [i \in 1..Len(sorted) |-> sorted[i].id]

getCorrectOrder(angles) ==
    LET sorted == sortAscending(angles, degreesOf(angles))
    IN  [i \in 1..Len(sorted) |-> sorted[i].id]

\* the simple fallback set 30, 35, 40, 45
FallbackAngleSet == <<3000, 3500, 4000, 4500>>

\* generateQuestion once the angle set is chosen: the Angle objects, the
\* correct order and the shuffle, drawing from position pos on
questionFrom(questionId, angleSet, stream, pos) ==
    LET angles == [index \in 1..Len(angleSet) |->
                      addVisualProperties(angleSet[index], index - 1, stream,
                                          pos + 3 * (index - 1))]
        correctOrder == correctOrderOfAngles(angles)
        shuffledAngles == shuffleArray(angles, stream, pos + 3 * Len(angleSet))
    IN  [id |-> questionId, angles |-> shuffledAngles, correctOrder |-> correctOrder]

\* variant: the set of the last failed attempt is used, never the fallback
generateQuestion_noFallback(questionId, stream) ==
    LET found == findAngleSet(0, <<>>, stream, 1)
    IN  questionFrom(questionId, found.angleSet, stream, found.pos)

generateQuestion(questionId, stream) ==
    LET found == findAngleSet(0, <<>>, stream, 1)
        angleSet == IF found.attempts >= MAX_GENERATION_ATTEMPTS
                    THEN FallbackAngleSet
                    ELSE found.angleSet
    IN  questionFrom(questionId, angleSet, stream, found.pos)

validateQuestion(question) ==
    LET angleIds == [i \in 1..Len(question.angles) |-> question.angles[i].id]
    IN  IF question.id = 0
        THEN FALSE
        ELSE IF Len(question.angles) # 4 \/ Len(question.correctOrder) # 4
        THEN FALSE
        ELSE IF Cardinality(Range(angleIds)) # 4
        THEN FALSE
        ELSE IF Cardinality(Range(question.correctOrder)) # Cardinality(Range(angleIds))
        THEN FALSE
        ELSE IF \E i \in 1..Len(angleIds) : angleIds[i] \notin Range(question.correctOrder)
        THEN FALSE
        ELSE getCorrectOrder(question.angles) = question.correctOrder

-----------------------------------------------------------------------------
(* Storage: localStorage under the three keys of STORAGE_KEYS.  A session  *)
(* written by JSON.stringify and read back by JSON.parse has the id,       *)
(* questions, userAnswers, startTime, endTime and isCompleted it had, so a  *)
(* stored session is the session record.  The history item is the list      *)
(* history when historyJson is "list" (an absent item and "[]" are both the *)
(* empty list), a text that JSON.parse rejects when it is "unparseable",    *)
(* and the text of a value that is no array when it is "value".  The        *)
(* current-session item is NoItem, UnparseableItem or JsonItem(value).      *)
(* A stored entry that is no session is NullEntry (JSON null), JunkValue (a *)
(* number or a string), or a record that lacks fields of a session or       *)
(* whose field typeof names the fields holding a value of another type.     *)
(* mode is what localStorage does when it is called: "ok" (setItem throws   *)
(* only when the quota of the history is exceeded), "unavailable" (it is    *)
(* missing or every call throws, so the availability probe fails), "error"  *)
(* (the probe passes and every later call throws an error other than        *)
(* QuotaExceededError).  The functions take the mode as outcome.            *)

DEFAULT_MAX_STORED_TESTS == 50

NoSettings == [isNull |-> TRUE]

StoreModes == {"ok", "unavailable", "error"}

NoItem == [kind |-> "null"]

UnparseableItem == [kind |-> "unparseable"]

JsonItem(value) == [kind |-> "json", value |-> value]

NullEntry == [isNull |-> TRUE]

JunkValue == [junk |-> TRUE]

EmptyStorage ==
    [history |-> <<>>, historyJson |-> "list", settings |-> NoSettings, quota |-> 0,
     current |-> NoItem, mode |-> "ok"]

NothingSaved == [sessions |-> <<>>, retried |-> FALSE, result |-> FALSE]

startTimesOf(sessions) == [i \in 1..Len(sessions) |-> sessions[i].startTime]

\* the length of JSON.stringify(session), in units of the text of a session
\* without recorded answers: the recorded id lists make the text longer,
\* here by one more unit
jsonLength(session) ==
    IF \E i \in 1..Len(session.userAnswers) : session.userAnswers[i] # NullAnswer
    THEN 2
    ELSE 1

RECURSIVE historyLength(_)
\* the length of JSON.stringify(history)
historyLength(history) ==
    IF history = <<>>
    THEN 0
    ELSE jsonLength(Head(history)) + historyLength(Tail(history))

\* localStorage.setItem of a history throws QuotaExceededError
quotaExceeded(st, history) == st.quota # 0 /\ historyLength(history) > st.quota

\* the probe write of isLocalStorageAvailable throws when localStorage is
\* missing and when every call of it fails
isLocalStorageAvailable(outcome) == outcome # "unavailable"

safeParseJSON(item, fallback) ==
    IF item.kind = "null" \/ item.kind = "unparseable" THEN fallback ELSE item.value

getStorageSettings(st) ==
    IF st.settings = NoSettings
    THEN [isNull |-> FALSE, maxStoredTests |-> DEFAULT_MAX_STORED_TESTS, lastCleanup |-> 0]
    ELSE st.settings

\* the types of the fields of a TestSession built by the program
SessionFieldTypes ==
    [id |-> "string", questions |-> "array", userAnswers |-> "array",
     startTime |-> "number", endTime |-> "number", isCompleted |-> "boolean"]

\* typeof obj[field], with "array" for what Array.isArray accepts
typeOfField(obj, field) ==
    IF field \notin DOMAIN obj
    THEN "undefined"
    ELSE IF "typeof" \in DOMAIN obj /\ field \in DOMAIN obj.typeof
         THEN obj.typeof[field]
         ELSE SessionFieldTypes[field]

\* variant: startTime and isCompleted are not looked at
isValidTestSession_threeChecks(data) ==
    /\ "isNull" \notin DOMAIN data
    /\ "junk" \notin DOMAIN data
    /\ typeOfField(data, "id") = "string"
    /\ typeOfField(data, "questions") = "array"
    /\ typeOfField(data, "userAnswers") = "array"
    /\ Len(data.questions) = 15
    /\ Len(data.userAnswers) = 15

isValidTestSession(data) ==
    /\ "isNull" \notin DOMAIN data
    /\ "junk" \notin DOMAIN data
    /\ typeOfField(data, "id") = "string"
    /\ typeOfField(data, "questions") = "array"
    /\ typeOfField(data, "userAnswers") = "array"
    /\ typeOfField(data, "startTime") = "number"
    /\ typeOfField(data, "isCompleted") = "boolean"
    /\ Len(data.questions) = 15
    /\ Len(data.userAnswers) = 15

\* Array.prototype.slice(-n): the last n entries, and the whole array for n = 0
sliceFromEnd(seq, n) ==
    IF n = 0 \/ n >= Len(seq) THEN seq ELSE SubSeq(seq, Len(seq) - n + 1, Len(seq))

\* variant: the oldest sessions are kept
cleanupOldSessions_keepsOldest(sessions, maxSessions) ==
    IF Len(sessions) <= maxSessions
    THEN sessions
    ELSE SubSeq(sortAscending(sessions, startTimesOf(sessions)), 1, maxSessions)

cleanupOldSessions(sessions, maxSessions) ==
    IF Len(sessions) <= maxSessions
    THEN sessions
    ELSE sliceFromEnd(sortAscending(sessions, startTimesOf(sessions)), maxSessions)

\* localStorage.removeItem(STORAGE_KEYS.TEST_HISTORY)
removeHistory(st) == [st EXCEPT !.history = <<>>, !.historyJson = "list"]

\* the outer catch of getTestHistory: the item is removed unless removeItem
\* throws as well, and the empty list is returned
getTestHistoryCaught(st, outcome) ==
    [value |-> <<>>,
     storage |-> IF outcome = "error" THEN st ELSE removeHistory(st),
     threw |-> FALSE]

\* variant: the error of the try block reaches the caller
getTestHistory_noCatch(st, outcome) ==
    IF ~isLocalStorageAvailable(outcome)
    THEN [value |-> <<>>, storage |-> st, threw |-> FALSE]
    ELSE IF outcome = "error" \/ st.historyJson = "value"
    THEN [value |-> <<>>, storage |-> st, threw |-> TRUE]
    ELSE
      LET rawHistory == IF st.historyJson = "unparseable" THEN <<>> ELSE st.history
          validSessions == SelectSeq(rawHistory, isValidTestSession)
      IN  [value |-> sortDescending(validSessions, startTimesOf(validSessions)),
           storage |-> IF Len(validSessions) # Len(rawHistory)
                       THEN [st EXCEPT !.history = validSessions]
                       ELSE st,
           threw |-> FALSE]

\* getTestHistory(): [value, storage, threw].  outcome is what localStorage
\* does: "unavailable" (the availability probe fails), "error" (the probe
\* passes and every later call throws), or "ok" (setItem throws only when
\* the quota is exceeded).  getItem throws under "error"; rawHistory.filter
\* throws a TypeError when the parsed value is no array.
getTestHistory(st, outcome) ==
    IF ~isLocalStorageAvailable(outcome)
    THEN [value |-> <<>>, storage |-> st, threw |-> FALSE]
    ELSE IF outcome = "error" \/ st.historyJson = "value"
    THEN getTestHistoryCaught(st, outcome)
    ELSE
      LET rawHistory == safeParseJSON([kind |-> IF st.historyJson = "list"
                                                THEN "json" ELSE st.historyJson,
                                       value |-> st.history], <<>>)
          validSessions == SelectSeq(rawHistory, isValidTestSession)
      IN  IF Len(validSessions) # Len(rawHistory) /\ quotaExceeded(st, validSessions)
          THEN getTestHistoryCaught(st, outcome)
          ELSE [value |-> sortDescending(validSessions, startTimesOf(validSessions)),
                storage |-> IF Len(validSessions) # Len(rawHistory)
                            THEN [st EXCEPT !.history = validSessions]
                            ELSE st,
                threw |-> FALSE]

\* variant: a QuotaExceededError of the write is given up on like any other
saveTestSession_noRetry(st, session, outcome, t) ==
    LET failed == [storage |-> st, ok |-> FALSE, retried |-> FALSE, retries |-> 0,
                   threw |-> FALSE]
    IN  IF outcome = "unavailable" \/ ~isValidTestSession(session)
        THEN failed
        ELSE
          LET read == getTestHistory(st, outcome)
              settings == getStorageSettings(st)
              cleanedHistory == cleanupOldSessions(Append(read.value, session),
                                                   settings.maxStoredTests)
          IN  IF outcome = "error" \/ quotaExceeded(st, cleanedHistory)
              THEN failed
              ELSE [storage |-> [read.storage EXCEPT
                                    !.history = cleanedHistory, !.historyJson = "list",
                                    !.settings = [settings EXCEPT !.lastCleanup = t]],
                    ok |-> TRUE, retried |-> FALSE, retries |-> 0, threw |-> FALSE]

\* saveTestSession(session) at clock value t: [storage, ok, retried, retries,
\* threw].  outcome is what localStorage does: "unavailable" (the
\* availability probe fails), "error" (every call after the probe throws an
\* error other than QuotaExceededError), or "ok" (setItem throws only when
\* the quota is exceeded).  ok is the returned boolean, retries the number
\* of times the catch block entered its retry, retried whether the retry
\* stored the session.  The retry writes the reduced history and then the
\* reduced history with the session; an error of either write is caught.
saveTestSession(st, session, outcome, t) ==
    LET failed == [storage |-> st, ok |-> FALSE, retried |-> FALSE, retries |-> 0,
                   threw |-> FALSE]
    IN  IF outcome = "unavailable" \/ ~isValidTestSession(session)
        THEN failed
        ELSE
          LET read == getTestHistory(st, outcome)
              currentHistory == read.value
              updatedHistory == Append(currentHistory, session)
              settings == getStorageSettings(st)
              cleanedHistory == cleanupOldSessions(updatedHistory, settings.maxStoredTests)
              reread == getTestHistory(read.storage, outcome)
              reducedHistory == cleanupOldSessions(reread.value, settings.maxStoredTests \div 2)
          IN  IF outcome = "error"
              THEN failed
              ELSE IF ~quotaExceeded(st, cleanedHistory)
              THEN [storage |-> [read.storage EXCEPT
                                    !.history = cleanedHistory, !.historyJson = "list",
                                    !.settings = [settings EXCEPT !.lastCleanup = t]],
                    ok |-> TRUE, retried |-> FALSE, retries |-> 0, threw |-> FALSE]
              ELSE IF quotaExceeded(st, reducedHistory)
              THEN [failed EXCEPT !.storage = reread.storage, !.retries = 1]
              ELSE IF quotaExceeded(st, Append(reducedHistory, session))
              THEN [storage |-> [reread.storage EXCEPT
                                    !.history = reducedHistory, !.historyJson = "list"],
                    ok |-> FALSE, retried |-> FALSE, retries |-> 1, threw |-> FALSE]
              ELSE [storage |-> [reread.storage EXCEPT
                                    !.history = Append(reducedHistory, session),
                                    !.historyJson = "list"],
                    ok |-> TRUE, retried |-> TRUE, retries |-> 1, threw |-> FALSE]

\* saveCurrentSession(session): [storage, ok, threw]
saveCurrentSession(st, session, outcome) ==
    IF outcome = "ok"
    THEN [storage |-> [st EXCEPT !.current = JsonItem(session)], ok |-> TRUE, threw |-> FALSE]
    ELSE [storage |-> st, ok |-> FALSE, threw |-> FALSE]

\* localStorage.removeItem(STORAGE_KEYS.CURRENT_SESSION)
removeCurrent(st) == [st EXCEPT !.current = NoItem]

\* getCurrentSession(): [value, storage, threw]; the value is NoSession for
\* null.  Under "error" getItem throws, and so does the removeItem of the
\* catch block.
getCurrentSession(st, outcome) ==
    IF ~isLocalStorageAvailable(outcome)
    THEN [value |-> NoSession, storage |-> st, threw |-> FALSE]
    ELSE IF outcome = "error"
    THEN [value |-> NoSession, storage |-> st, threw |-> FALSE]
    ELSE
      LET session == safeParseJSON(st.current, NullEntry)
      IN  IF isValidTestSession(session)
          THEN [value |-> session, storage |-> st, threw |-> FALSE]
          ELSE [value |-> NoSession, storage |-> removeCurrent(st), threw |-> FALSE]

\* clearCurrentSession(): [storage, threw]
clearCurrentSession(st, outcome) ==
    IF outcome = "ok"
    THEN [storage |-> removeCurrent(st), threw |-> FALSE]
    ELSE [storage |-> st, threw |-> FALSE]

-----------------------------------------------------------------------------
(* TestProvider: the timer effect, the persistence effect and the session  *)
(* factory                                                                 *)

NoTimer == [armed |-> FALSE, captured |-> 0]

\* variant: the effect arms the interval whenever time is left, active or not
timerEffect_ignoresActive(old, new, tm) ==
    IF old.isActive = new.isActive /\ old.timeRemaining = new.timeRemaining
    THEN tm
    ELSE IF new.timeRemaining <= 0
         THEN NoTimer
         ELSE [armed |-> TRUE, captured |-> new.timeRemaining]

\* useEffect(..., [state.isActive, state.timeRemaining]): when a dependency
\* changed, the old interval is cleared and a new one is armed only for an
\* active test with time left; its closure captures state.timeRemaining.
timerEffect(old, new, tm) ==
    IF old.isActive = new.isActive /\ old.timeRemaining = new.timeRemaining
    THEN tm
    ELSE IF ~new.isActive \/ new.timeRemaining <= 0
         THEN NoTimer
         ELSE [armed |-> TRUE, captured |-> new.timeRemaining]

\* variant: a completed session is written to the slot like an active one
persistenceEffect_savesCompleted(old, new, st) ==
    IF (old.currentSession = new.currentSession /\ old.isActive = new.isActive)
       \/ new.currentSession = NoSession
    THEN [storage |-> st, threw |-> FALSE, ran |-> "none"]
    ELSE LET r == saveCurrentSession(st, new.currentSession, st.mode)
         IN  [storage |-> r.storage, threw |-> r.threw, ran |-> "save"]

\* variant: the snapshot is written before the reducer's session is taken
persistenceEffect_savesOld(old, new, st) ==
    IF (old.currentSession = new.currentSession /\ old.isActive = new.isActive)
       \/ new.currentSession = NoSession
    THEN [storage |-> st, threw |-> FALSE, ran |-> "none"]
    ELSE IF new.currentSession.isCompleted
    THEN LET r == clearCurrentSession(st, st.mode)
         IN  [storage |-> r.storage, threw |-> r.threw, ran |-> "clear"]
    ELSE IF new.isActive
    THEN LET r == saveCurrentSession(st, IF old.currentSession = NoSession
                                         THEN new.currentSession
                                         ELSE old.currentSession, st.mode)
         IN  [storage |-> r.storage, threw |-> r.threw, ran |-> "save"]
    ELSE [storage |-> st, threw |-> FALSE, ran |-> "none"]

\* useEffect(..., [state.currentSession, state.isActive]): [storage, threw,
\* ran].  It runs when a dependency changed; a reducer case that builds a
\* session equal to the old one counts as leaving it unchanged.  ran names
\* the store function it called.
persistenceEffect(old, new, st) ==
    IF (old.currentSession = new.currentSession /\ old.isActive = new.isActive)
       \/ new.currentSession = NoSession
    THEN [storage |-> st, threw |-> FALSE, ran |-> "none"]
    ELSE IF new.currentSession.isCompleted
    THEN LET r == clearCurrentSession(st, st.mode)
         IN  [storage |-> r.storage, threw |-> r.threw, ran |-> "clear"]
    ELSE IF new.isActive
    THEN LET r == saveCurrentSession(st, new.currentSession, st.mode)
         IN  [storage |-> r.storage, threw |-> r.threw, ran |-> "save"]
    ELSE [storage |-> st, threw |-> FALSE, ran |-> "none"]

\* variant: the state the provider holds is kept only when the store call of
\* the effect worked
committed_needsStore(old, new, st) ==
    LET e == persistenceEffect(old, new, st)
    IN  [state |-> IF e.ran # "none" /\ st.mode # "ok" THEN old ELSE new,
         storage |-> e.storage, ran |-> e.ran]

\* what a render commit leaves: [state, storage, ran].  An error thrown by
\* an effect of the provider is caught by no error boundary (the boundaries
\* are below the provider): React unmounts the tree, and the provider that
\* is mounted next starts from initialState.
committed(old, new, st) ==
    LET e == persistenceEffect(old, new, st)
    IN  [state |-> IF e.threw THEN initialState ELSE new,
         storage |-> e.storage, ran |-> e.ran]

NoDispatch == [type |-> "INIT", n |-> 0, arg |-> 0, effect |-> "none"]

FailingStorage(mode) == [EmptyStorage EXCEPT !.mode = mode]

NoTwin == [state |-> initialState, storage |-> FailingStorage("unavailable")]

\* the session startNewTest builds at clock value t
newSession(t) ==
    [id |-> t,
     questions |-> Battery,
     userAnswers |-> [i \in 1..NumQuestions |-> NullAnswer],
     startTime |-> t,
     endTime |-> NullTime,
     isCompleted |-> FALSE]

\* a render commit: the new reducer state, then the effects.  twin is the
\* provider of a second run that is dispatched the same actions over a
\* store whose calls all fail; while its state equals the state of this
\* run the reducer gives it the same new state.
CommitWith(new, type, arg) ==
    LET c == committed(state, new, storage)
        t == committed(twin.state, IF twin.state = state THEN new ELSE twin.state,
                       twin.storage)
    IN  /\ state' = c.state
        /\ timer' = timerEffect(state, c.state, timer)
        /\ last' = [type |-> type, n |-> Len(state.currentSelections), arg |-> arg,
                    effect |-> c.ran]
        /\ storage' = c.storage
        /\ twin' = [state |-> t.state, storage |-> t.storage]
        /\ UNCHANGED <<now, probe, saved>>

Commit(new, type) == CommitWith(new, type, 0)

-----------------------------------------------------------------------------
(* What the environment dispatches *)

IsPrefix(p, q) == Len(p) <= Len(q) /\ SubSeq(q, 1, Len(p)) = p

\* The orders in which the modelled user of Spec clicks the angles of a
\* question: one complete ranking and one that is abandoned after three picks.
PickOrders == {<<1, 2, 3, 4>>, <<2, 1, 4>>}

\* Ids the user of Spec clicks in state s: an id already picked (a re-click),
\* the next id of a pick order, or any id once four are picked.
OfferedIds(s) ==
    {id \in Ids :
        \/ id \in Range(s.currentSelections)
        \/ Len(s.currentSelections) >= MaxSelections
        \/ \E o \in PickOrders : IsPrefix(Append(s.currentSelections, id), o)}

\* a session as saveCurrentSession left it in the recovery slot: started at
\* t, not completed, its first k questions answered
recoveredSession(k, t) ==
    [newSession(t) EXCEPT !.userAnswers =
        [i \in 1..NumQuestions |-> IF i <= k THEN Answer(<<1, 2, 3, 4>>) ELSE NullAnswer]]

\* what an earlier page load left in the current-session slot
RecoveredItems ==
    {NoItem} \cup {JsonItem(recoveredSession(k, 1)) : k \in 0..MaxRecovered}

\* the session the home page offers to resume: the one getCurrentSession
\* returns.  The home page is opened while at most MaxRecovered questions
\* of the snapshot are answered.
LoadableSessions ==
    LET read == getCurrentSession(storage, storage.mode)
    IN  IF read.value = NoSession
        THEN {}
        ELSE IF Cardinality({i \in 1..NumQuestions : read.value.userAnswers[i] # NullAnswer})
                  > MaxRecovered
        THEN {}
        ELSE {read.value}

-----------------------------------------------------------------------------
(* Actions: the dispatching callbacks of useTestActions, raw dispatches    *)
(* through the context, the interval callback, and the clock               *)

startNewTest ==
    Commit(START_TEST(state, newSession(now)), "START_TEST")

selectAngle(angleId) ==
    Commit(SELECT_ANGLE(state, angleId), "SELECT_ANGLE")

deselectAngle(angleId) ==
    Commit(DESELECT_ANGLE(state, angleId), "DESELECT_ANGLE")

clearSelections ==
    Commit(CLEAR_SELECTIONS(state), "CLEAR_SELECTIONS")

nextQuestion ==
    Commit(NEXT_QUESTION(state, now), "NEXT_QUESTION")

submitTest ==
    Commit(SUBMIT_TEST(state, now), "SUBMIT_TEST")

resetTest ==
    Commit(RESET_TEST(state), "RESET_TEST")

loadSession(session) ==
    Commit(LOAD_SESSION(state, session), "LOAD_SESSION")

endTest ==
    Commit(END_TEST(state, now), "END_TEST")

updateTimer(seconds) ==
    CommitWith(UPDATE_TIMER(state, seconds), "UPDATE_TIMER", seconds)

\* the setInterval callback: UPDATE_TIMER with the captured time minus one,
\* then SUBMIT_TEST when the captured time was at most 1; both dispatches are
\* reduced in order before the next render
timerCallback ==
    /\ timer.armed
    /\ timer.captured <= MaxTick
    /\ LET ticked == UPDATE_TIMER(state, timer.captured - 1)
       IN  IF timer.captured <= 1
           THEN Commit(SUBMIT_TEST(ticked, now), "TIMER_SUBMIT")
           ELSE Commit(ticked, "TIMER_TICK")

AdvanceClock ==
    /\ now < MaxNow
    /\ now' = now + 1
    /\ UNCHANGED <<state, timer, last, probe, storage, saved, twin>>

\* localStorage stops working: it has filled up, or the browser's
\* permission was withdrawn
storeFails(mode) ==
    /\ storage.mode = "ok"
    /\ mode # "ok"
    /\ storage' = [storage EXCEPT !.mode = mode]
    /\ last' = [type |-> "STORE", n |-> 0, arg |-> 0, effect |-> "none"]
    /\ UNCHANGED <<state, timer, now, probe, saved, twin>>

-----------------------------------------------------------------------------
(* Specifications *)

Init ==
    /\ state = initialState
    /\ timer = NoTimer
    /\ now = 1
    /\ last = NoDispatch
    /\ probe = NoProbe
    /\ \E item \in RecoveredItems : storage = [EmptyStorage EXCEPT !.current = item]
    /\ saved = NothingSaved
    /\ twin = NoTwin

\* answering a test: every dispatch of the presentation layer, the clock
\* running; the countdown is left to SpecTimer
Next ==
    \/ startNewTest
    \/ \E id \in OfferedIds(state) : selectAngle(id)
    \/ \E id \in Ids : deselectAngle(id)
    \/ clearSelections
    \/ nextQuestion
    \/ submitTest
    \/ resetTest
    \/ \E session \in LoadableSessions : loadSession(session)
    \/ endTest
    \/ AdvanceClock

Spec == Init /\ [][Next]_vars

\* the selection list of one question, every id dispatched in every order
NextSelect ==
    \/ startNewTest
    \/ \E id \in Ids : selectAngle(id)
    \/ \E id \in Ids : deselectAngle(id)
    \/ clearSelections
    \/ resetTest

SpecSelect == Init /\ [][NextSelect]_vars

\* the run of the test 'should complete test on last question': start a test,
\* then for each question pick four distinct ids and dispatch NEXT_QUESTION.
\* The first pick of the first question is free; the ids of question q are
\* picked in the cyclic order that starts q ids after it.
RunOrder(first, q) ==
    [k \in 1..MaxSelections |-> ((first - 1 + q + k - 1) % NumIds) + 1]

RunPicks(s) ==
    IF s.currentQuestionIndex = 0 /\ s.currentSelections = <<>>
    THEN Ids
    ELSE LET first == IF s.currentQuestionIndex = 0
                      THEN s.currentSelections[1]
                      ELSE s.currentSession.userAnswers[1].ids[1]
         IN  {RunOrder(first, s.currentQuestionIndex)[Len(s.currentSelections) + 1]}

runStart == last.type = "INIT" /\ startNewTest

runSelect ==
    /\ state.isActive
    /\ Len(state.currentSelections) < MaxSelections
    /\ \E id \in RunPicks(state) : selectAngle(id)

runNext ==
    /\ state.isActive
    /\ Len(state.currentSelections) = MaxSelections
    /\ nextQuestion

NextRun == runStart \/ runSelect \/ runNext \/ AdvanceClock

SpecRun == Init /\ [][NextRun]_vars

\* the timer driver with the dispatches that start, stop and replace a test;
\* the interval fires whenever it stays armed
NextTimer ==
    \/ startNewTest
    \/ \E id \in OfferedIds(state) : selectAngle(id)
    \/ submitTest
    \/ endTest
    \/ resetTest
    \/ \E session \in LoadableSessions : loadSession(session)
    \/ \E seconds \in TimerPayloads : updateTimer(seconds)
    \/ timerCallback
    \/ AdvanceClock

SpecTimer == Init /\ [][NextTimer]_vars /\ WF_vars(timerCallback)

\* the life cycle of sessions: tests are started, answered in display order,
\* advanced, ended, recovered and reset while UPDATE_TIMER moves the countdown
LifePicks(s) ==
    {id \in Ids : id = Len(s.currentSelections) + 1 /\ id <= MaxSelections}

NextLife ==
    \/ startNewTest
    \/ \E id \in LifePicks(state) : selectAngle(id)
    \/ nextQuestion
    \/ submitTest
    \/ endTest
    \/ resetTest
    \/ \E session \in LoadableSessions : loadSession(session)
    \/ \E seconds \in TimerPayloads : updateTimer(seconds)
    \/ AdvanceClock

SpecLife == Init /\ [][NextLife]_vars

\* the provider over a localStorage that can fail: tests are started,
\* answered in display order, advanced, submitted, ended, timed out, reset,
\* and resumed while localStorage works, fails, or stops working between
\* two dispatches; angles are clicked while the test is active; the second
\* run has a store that always fails
InitPersist ==
    /\ state = initialState
    /\ timer = NoTimer
    /\ now = 1
    /\ last = NoDispatch
    /\ probe = NoProbe
    /\ saved = NothingSaved
    /\ \E item \in RecoveredItems, mode \in StoreModes :
          storage = [EmptyStorage EXCEPT !.current = item, !.mode = mode]
    /\ \E mode \in StoreModes \ {"ok"} :
          twin = [state |-> initialState, storage |-> FailingStorage(mode)]

NextPersist ==
    \/ startNewTest
    \/ state.isActive /\ \E id \in LifePicks(state) : selectAngle(id)
    \/ nextQuestion
    \/ submitTest
    \/ endTest
    \/ resetTest
    \/ \E session \in LoadableSessions : loadSession(session)
    \/ updateTimer(1)
    \/ timerCallback
    \/ \E mode \in StoreModes : storeFails(mode)

SpecPersist == InitPersist /\ [][NextPersist]_vars

\* The scoring functions called on their own.  isAnswerCorrect is called
\* with a question of the battery and null or any id list of up to
\* MaxSelections + 1 entries; calculateScore with a session, completed or
\* not, whose first k slots hold answers of one kind and the others of a
\* second kind.
SeqsUpTo(S, n) == UNION {[1..k -> S] : k \in 0..n}

UserAnswers == {NullAnswer} \cup {Answer(ids) : ids \in SeqsUpTo(Ids, MaxSelections + 1)}

AnswerKinds == {"null", "correct", "permuted", "short"}

answerOfKind(kind, question) ==
    LET c == question.correctOrder
    IN  CASE kind = "null" -> NullAnswer
          [] kind = "correct" -> Answer(c)
          [] kind = "permuted" -> Answer(<<c[2], c[1], c[3], c[4]>>)
          [] OTHER -> Answer(<<c[1], c[2]>>)

scoredSession(k, a, b, completed, t) ==
    [newSession(1) EXCEPT
        !.userAnswers = [i \in 1..NumQuestions |->
                            answerOfKind(IF i <= k THEN a ELSE b, Battery[i])],
        !.endTime = IF completed THEN t ELSE NullTime,
        !.isCompleted = completed]

ScoredSessions ==
    {scoredSession(k, a, b, completed, t) :
        k \in 0..NumQuestions, a \in AnswerKinds, b \in AnswerKinds,
        completed \in BOOLEAN, t \in 1..MaxNow}

InitScore ==
    /\ state = initialState
    /\ timer = NoTimer
    /\ now = 1
    /\ last = NoDispatch
    /\ storage = EmptyStorage
    /\ saved = NothingSaved
    /\ twin = NoTwin
    /\ probe \in
         {[fn |-> "isAnswerCorrect", question |-> Battery[q], userAnswer |-> a, done |-> FALSE]
             : q \in 1..2, a \in UserAnswers}
         \cup {[fn |-> "calculateScore", session |-> session, done |-> FALSE]
                  : session \in ScoredSessions}

callIsAnswerCorrect ==
    /\ probe.fn = "isAnswerCorrect"
    /\ ~probe.done
    /\ probe' = [fn |-> probe.fn, question |-> probe.question, userAnswer |-> probe.userAnswer,
                 done |-> TRUE, out |-> isAnswerCorrect(probe.question, probe.userAnswer)]
    /\ UNCHANGED <<state, timer, now, last, storage, saved, twin>>

callCalculateScore ==
    /\ probe.fn = "calculateScore"
    /\ ~probe.done
    /\ probe' = [fn |-> probe.fn, session |-> probe.session,
                 done |-> TRUE, out |-> calculateScore(probe.session)]
    /\ UNCHANGED <<state, timer, now, last, storage, saved, twin>>

NextScore == callIsAnswerCorrect \/ callCalculateScore

SpecScore == InitScore /\ [][NextScore]_vars

\* generateQuestion called on its own, with the results of its Math.random()
\* calls given as a stream: the angle type, the base angle, the three deltas,
\* rotation and two arm lengths for each of the four angles, and the three
\* draws of the shuffle.  Either the magnitudes and the shuffle vary and the
\* visual draws are all 0, or the base angle and the visual draws vary.
GenStreams ==
    {<<t, b, d1, d2, d3>> \o [i \in 1..12 |-> 0] \o <<s3, s2, s1>> :
        t \in Draws, b \in Draws, d1 \in Draws, d2 \in Draws, d3 \in Draws,
        s3 \in Draws, s2 \in Draws, s1 \in Draws}
    \cup
    {<<t, b, 0, 0, 0>> \o <<r, a1, a2, r, a2, a1, r, a1, a1, r, a2, a2>> \o <<0, 0, 0>> :
        t \in Draws, b \in Draws, r \in Draws, a1 \in Draws, a2 \in Draws}

InitGen ==
    /\ state = initialState
    /\ timer = NoTimer
    /\ now = 1
    /\ last = NoDispatch
    /\ storage = EmptyStorage
    /\ saved = NothingSaved
    /\ twin = NoTwin
    /\ probe \in {[fn |-> "generateQuestion", questionId |-> q, stream |-> stream, done |-> FALSE]
                     : q \in {1, NumQuestions}, stream \in GenStreams}

callGenerateQuestion ==
    /\ probe.fn = "generateQuestion"
    /\ ~probe.done
    /\ probe' = [fn |-> probe.fn, questionId |-> probe.questionId, stream |-> probe.stream,
                 done |-> TRUE, out |-> generateQuestion(probe.questionId, probe.stream),
                 attempts |-> findAngleSet(0, <<>>, probe.stream, 1).attempts]
    /\ UNCHANGED <<state, timer, now, last, storage, saved, twin>>

NextGen == callGenerateQuestion

\* a stand-in for Math.random that returns 3 or 4 instead of a number below 1
OutOfRangeDraws == {3 * RandDen, 4 * RandDen}

\* the draws of one attempt of the retry loop that fails: the base angle is
\* above 180 degrees, so each further angle is taken backwards from it
FailingAttempt(t, b) == <<t, b, 0, 0, 0, 0, 0, 0>>

RECURSIVE FailingAttempts(_, _, _)
FailingAttempts(n, t, b) ==
    IF n = 0 THEN <<>> ELSE FailingAttempt(t, b) \o FailingAttempts(n - 1, t, b)

\* the draws of generateQuestion when Math.random is replaced, as the tests
\* replace it: up to MaxFailed failing attempts followed by one that
\* succeeds, or failing attempts only
RetryStreams ==
    {FailingAttempts(n, t, b) \o <<t2, b2, d, d, d>> \o [i \in 1..15 |-> 0] :
        n \in 0..MaxFailed, t \in Draws, b \in OutOfRangeDraws,
        t2 \in Draws, b2 \in Draws, d \in Draws}
    \cup
    {FailingAttempt(t, b) : t \in Draws, b \in OutOfRangeDraws}

InitRetry ==
    /\ state = initialState
    /\ timer = NoTimer
    /\ now = 1
    /\ last = NoDispatch
    /\ storage = EmptyStorage
    /\ saved = NothingSaved
    /\ twin = NoTwin
    /\ probe \in {[fn |-> "generateQuestion", questionId |-> q, stream |-> stream, done |-> FALSE]
                     : q \in {1, NumQuestions}, stream \in RetryStreams}

NextRetry == callGenerateQuestion

SpecRetry == InitRetry /\ [][NextRetry]_vars

\* generateAngleSet called on its own, as its tests call it: the base angles
\* of the tests (0, 0.1, 5, 10, 45, 90, 135, 170, 175, 179.9 and 180
\* degrees) and every sequence of six results of Math.random
TestedBaseAngles == {0, 10, 500, 1000, 4500, 9000, 13500, 17000, 17500, 17990, 18000}

AngleSetStreams ==
    {<<d1, b1, d2, b2, d3, b3>> :
        d1 \in Draws, b1 \in Draws, d2 \in Draws, b2 \in Draws, d3 \in Draws, b3 \in Draws}

InitSet ==
    /\ state = initialState
    /\ timer = NoTimer
    /\ now = 1
    /\ last = NoDispatch
    /\ storage = EmptyStorage
    /\ saved = NothingSaved
    /\ twin = NoTwin
    /\ probe \in {[fn |-> "generateAngleSet", baseAngle |-> baseAngle, stream |-> stream,
                   done |-> FALSE]
                     : baseAngle \in TestedBaseAngles, stream \in AngleSetStreams}

callGenerateAngleSet ==
    /\ probe.fn = "generateAngleSet"
    /\ ~probe.done
    /\ probe' = [fn |-> probe.fn, baseAngle |-> probe.baseAngle, stream |-> probe.stream,
                 done |-> TRUE,
                 out |-> generateAngleSet(probe.baseAngle, probe.stream, 1).angles]
    /\ UNCHANGED <<state, timer, now, last, storage, saved, twin>>

NextSet == callGenerateAngleSet

SpecSet == InitSet /\ [][NextSet]_vars

SpecGen == InitGen /\ [][NextGen]_vars

\* The history store on its own: localStorage starts with no history, with
\* no settings or a configured maximum, and with or without a quota; completed
\* sessions of any start time are saved one after the other, each completed
\* at the clock value it started.
completedSession(id, start) ==
    [newSession(start) EXCEPT !.id = id, !.endTime = start, !.isCompleted = TRUE]

\* a completed session with every question answered
answeredSession(id, start) ==
    [completedSession(id, start) EXCEPT
        !.userAnswers = [i \in 1..NumQuestions |-> Answer(<<1, 2, 3, 4>>)]]

InitStore ==
    /\ state = initialState
    /\ timer = NoTimer
    /\ now = 1
    /\ last = NoDispatch
    /\ probe = NoProbe
    /\ saved = NothingSaved
    /\ twin = NoTwin
    /\ \E settings \in {NoSettings}
                        \cup {[isNull |-> FALSE, maxStoredTests |-> m, lastCleanup |-> 0]
                                 : m \in 1..MaxStored},
          quota \in 0..MaxQuota :
          storage = [EmptyStorage EXCEPT !.settings = settings, !.quota = quota]

\* the sessions given to saveTestSession: those started at the latest clock
\* value are fully answered, the earlier ones were submitted unanswered
sessionToSave(id, start) ==
    IF start = MaxNow THEN answeredSession(id, start) ELSE completedSession(id, start)

callSaveTestSession(start, outcome) ==
    /\ Len(saved.sessions) < MaxSaves
    /\ LET session == sessionToSave(Len(saved.sessions) + 1, start)
           r == saveTestSession(storage, session, outcome, now)
       IN  /\ storage' = r.storage
           /\ saved' = [sessions |-> IF r.ok THEN Append(saved.sessions, session)
                                             ELSE saved.sessions,
                        retried |-> saved.retried \/ r.retries > 0,
                        result |-> r.ok]
           /\ probe' = [fn |-> "saveTestSession", before |-> storage, session |-> session,
                        outcome |-> outcome, ok |-> r.ok, retries |-> r.retries,
                        threw |-> r.threw]
    /\ UNCHANGED <<state, timer, now, last, twin>>

NextStore ==
    \E start \in 1..MaxNow, outcome \in {"ok", "unavailable", "error"} :
        callSaveTestSession(start, outcome)

SpecStore == InitStore /\ [][NextStore]_vars

\* The reading functions on their own, over a localStorage an earlier page
\* load or another program left: either the history item varies (a list of
\* up to MaxEntries entries, sessions and others, or a text that is no
\* list) or the current-session item does, and localStorage works, is
\* missing, or throws on every call.
StoredEntries ==
    LET v == completedSession(1, 1)
    IN  {completedSession(id, start) : id \in 1..2, start \in 1..MaxNow}
        \cup {NullEntry, JunkValue,
              [id |-> 3, questions |-> <<>>, typeof |-> [questions |-> "string"]],
              [v EXCEPT !.id = 4, !.questions = SubSeq(v.questions, 1, 14)],
              [v EXCEPT !.id = 5, !.userAnswers = SubSeq(v.userAnswers, 1, 14)],
              [id |-> 6, questions |-> v.questions, userAnswers |-> v.userAnswers,
               startTime |-> 1, endTime |-> 1, isCompleted |-> TRUE,
               typeof |-> [id |-> "number"]],
              [id |-> 7, questions |-> v.questions, userAnswers |-> v.userAnswers,
               startTime |-> 1, endTime |-> 1, isCompleted |-> TRUE,
               typeof |-> [startTime |-> "string"]],
              [id |-> 8, questions |-> v.questions, userAnswers |-> v.userAnswers,
               startTime |-> 1, endTime |-> 1]}

StoredHistories ==
    {[history |-> h, historyJson |-> "list"] : h \in SeqsUpTo(StoredEntries, MaxEntries)}
    \cup {[history |-> <<>>, historyJson |-> j] : j \in {"unparseable", "value"}}

StoredItems ==
    {NoItem, UnparseableItem} \cup {JsonItem(e) : e \in StoredEntries}
    \cup {JsonItem(recoveredSession(k, 1)) : k \in 0..MaxRecovered}

InitRead ==
    /\ state = initialState
    /\ timer = NoTimer
    /\ now = 1
    /\ last = NoDispatch
    /\ probe = NoProbe
    /\ saved = NothingSaved
    /\ twin = NoTwin
    /\ \E mode \in StoreModes :
          \/ \E h \in StoredHistories :
                storage = [EmptyStorage EXCEPT !.history = h.history,
                                               !.historyJson = h.historyJson,
                                               !.mode = mode]
          \/ \E item \in StoredItems :
                storage = [EmptyStorage EXCEPT !.current = item, !.mode = mode]

callGetTestHistory ==
    /\ LET r == getTestHistory(storage, storage.mode)
       IN  /\ probe' = [fn |-> "getTestHistory", before |-> storage,
                        out |-> r.value, threw |-> r.threw]
           /\ storage' = r.storage
    /\ UNCHANGED <<state, timer, now, last, saved, twin>>

callGetCurrentSession ==
    /\ LET r == getCurrentSession(storage, storage.mode)
       IN  /\ probe' = [fn |-> "getCurrentSession", before |-> storage,
                        out |-> r.value, threw |-> r.threw]
           /\ storage' = r.storage
    /\ UNCHANGED <<state, timer, now, last, saved, twin>>

NextRead == callGetTestHistory \/ callGetCurrentSession

SpecRead == InitRead /\ [][NextRead]_vars

-----------------------------------------------------------------------------
(* Properties *)

HasSession(s) == s.currentSession # NoSession

Frozen(s) == HasSession(s) /\ s.currentSession.isCompleted

\* the entries of seq strictly before the first occurrence of x
Before(seq, x) ==
    LET k == CHOOSE k \in 1..Len(seq) : seq[k] = x /\ \A j \in 1..(k - 1) : seq[j] # x
    IN  [i \in 1..(k - 1) |-> seq[i]]

\* the userAnswers slot of the current question
CurrentSlot(s) == s.currentSession.userAnswers[s.currentQuestionIndex + 1]

CurrentQuestion(s) == s.currentSession.questions[s.currentQuestionIndex + 1]

AllAnswered(s) ==
    HasSession(s) /\ \A i \in 1..NumQuestions : ~s.currentSession.userAnswers[i].isNull

\* C1 (as claimed): once the current session is completed, SELECT_ANGLE,
\* DESELECT_ANGLE, CLEAR_SELECTIONS, NEXT_QUESTION, SUBMIT_TEST, END_TEST and
\* UPDATE_TIMER leave its userAnswers and its endTime as they are.
C1_FrozenSessionNeverChanges ==
    [][(/\ Frozen(state)
        /\ last'.type \in {"SELECT_ANGLE", "DESELECT_ANGLE", "CLEAR_SELECTIONS",
                           "NEXT_QUESTION", "SUBMIT_TEST", "END_TEST", "UPDATE_TIMER"})
       => /\ HasSession(state')
          /\ state'.currentSession.userAnswers = state.currentSession.userAnswers
          /\ state'.currentSession.endTime = state.currentSession.endTime]_vars

\* C2 (as claimed): NEXT_QUESTION returns the state unchanged unless a session
\* is present, isActive is true and exactly 4 selections are recorded.
C2_NextQuestionNeedsActiveSession ==
    [][(/\ last'.type = "NEXT_QUESTION"
        /\ ~(/\ HasSession(state)
             /\ state.isActive
             /\ Len(state.currentSelections) = MaxSelections))
       => state' = state]_vars

\* C3: in the run that starts a fresh test and, for each question, selects four
\* distinct ids and dispatches NEXT_QUESTION, once the session is completed or
\* all 15 answers are recorded the test is inactive, the session is completed
\* with its endTime set, and every userAnswers slot holds the four ids that
\* were selected for its question.
C3_RunCompletes ==
    (Frozen(state) \/ AllAnswered(state))
    => /\ ~state.isActive
       /\ state.currentSession.isCompleted
       /\ state.currentSession.endTime # NullTime
       /\ \A i \in 0..(NumQuestions - 1) :
            state.currentSession.userAnswers[i + 1]
                = Answer(RunOrder(state.currentSession.userAnswers[1].ids[1], i))

C3_Witness ==
    /\ Frozen(state)
    /\ last.type = "NEXT_QUESTION"
    /\ state.currentQuestionIndex = LastQuestionIndex
    /\ AllAnswered(state)

\* C4: SELECT_ANGLE of an id that is already selected leaves exactly the
\* selections before it, whatever the list and the position, and changes
\* nothing else of the state.
C4_ReselectTruncates ==
    [][\A id \in Ids :
        (selectAngle(id) /\ id \in Range(state.currentSelections))
        => state' = [state EXCEPT !.currentSelections = Before(state.currentSelections, id)]]_vars

\* a re-click on a full list that left two selections
C4_Witness ==
    /\ last.type = "SELECT_ANGLE"
    /\ last.n = MaxSelections
    /\ Len(state.currentSelections) = 2

\* C5: DESELECT_ANGLE of a selected id leaves exactly the selections before
\* its first occurrence; of an id that is not selected, it leaves the state
\* unchanged.
C5_DeselectTruncates ==
    [][\A id \in Ids :
        deselectAngle(id)
        => state' = IF id \in Range(state.currentSelections)
                    THEN [state EXCEPT !.currentSelections = Before(state.currentSelections, id)]
                    ELSE state]_vars

\* the middle one of three selections was deselected
C5_Witness ==
    /\ last.type = "DESELECT_ANGLE"
    /\ last.n = 3
    /\ Len(state.currentSelections) = 1

\* C6: with 4 selections recorded, SELECT_ANGLE of an id that is not among
\* them returns the state unchanged.
C6_FullSelectionRejectsNewId ==
    [][\A id \in Ids :
        (/\ selectAngle(id)
         /\ Len(state.currentSelections) = MaxSelections
         /\ id \notin Range(state.currentSelections))
        => state' = state]_vars

\* SELECT_ANGLE found four selections and truncated nothing
C6_Witness ==
    /\ last.type = "SELECT_ANGLE"
    /\ last.n = MaxSelections
    /\ Len(state.currentSelections) = MaxSelections

\* C7: SUBMIT_TEST with a session present completes it (isCompleted, endTime
\* set), deactivates the test and clears the selections; the current slot
\* becomes the selections when there are any, and no slot changes when there
\* are none.
C7_SubmitFreezes ==
    [][(last'.type = "SUBMIT_TEST" /\ HasSession(state))
       => /\ HasSession(state')
          /\ state'.currentSession.isCompleted
          /\ state'.currentSession.endTime # NullTime
          /\ ~state'.isActive
          /\ state'.currentSelections = <<>>
          /\ IF state.currentSelections # <<>>
             THEN state'.currentSession.userAnswers[state.currentQuestionIndex + 1]
                      = Answer(state.currentSelections)
             ELSE state'.currentSession.userAnswers = state.currentSession.userAnswers]_vars

\* a submission past the first question that recorded the selections in progress
C7_Witness ==
    /\ last.type = "SUBMIT_TEST"
    /\ last.n > 0
    /\ Frozen(state)
    /\ state.currentQuestionIndex > 0
    /\ Len(CurrentSlot(state).ids) = last.n

\* C8: SUBMIT_TEST with 1 to 3 selections in progress records them in the
\* current slot, isAnswerCorrect is false for that slot, and calculateScore
\* of the completed session is the number of other slots that hold their
\* question's correctOrder.
C8_ShortAnswerIsIncorrect ==
    [][(/\ last'.type = "SUBMIT_TEST"
        /\ HasSession(state)
        /\ Len(state.currentSelections) \in 1..(MaxSelections - 1))
       => LET session == state'.currentSession
              cur == state.currentQuestionIndex + 1
          IN  /\ session.userAnswers[cur] = Answer(state.currentSelections)
              /\ ~isAnswerCorrect(session.questions[cur], session.userAnswers[cur])
              /\ calculateScore(session)
                    = Cardinality({i \in (1..NumQuestions) \ {cur} :
                                      /\ ~session.userAnswers[i].isNull
                                      /\ session.userAnswers[i].ids
                                            = session.questions[i].correctOrder})]_vars

\* the short answer recorded is a beginning of the question's correctOrder
C8_Witness ==
    /\ last.type = "SUBMIT_TEST"
    /\ last.n \in 1..(MaxSelections - 1)
    /\ Frozen(state)
    /\ Len(CurrentSlot(state).ids) = last.n
    /\ IsPrefix(CurrentSlot(state).ids, CurrentQuestion(state).correctOrder)

\* C9 (as claimed): an active test whose timeRemaining has reached 0 is
\* eventually submitted: the session becomes completed.
C9_ExpiredTestIsSubmitted ==
    (state.isActive /\ state.timeRemaining = 0) ~> Frozen(state)

\* C10: the interval of the timer driver is armed only while the test is
\* active, with a session that is not completed; its callback, the only
\* source of timer-driven UPDATE_TIMER and SUBMIT_TEST, is disabled in every
\* other state.
C10_TimerOnlyWhileActive ==
    timer.armed => (state.isActive /\ HasSession(state) /\ ~Frozen(state))

\* a test completed with time left: the interval armed for it is cleared
C10_Witness ==
    /\ Frozen(state)
    /\ state.timeRemaining \in 1..MaxTick
    /\ ~timer.armed

\* C11: UPDATE_TIMER(seconds) sets timeRemaining to max(0, seconds), whatever
\* the sign of the payload, and changes nothing else; timeRemaining is never
\* negative in a reachable state.
C11_TimerNeverNegative ==
    /\ [](state.timeRemaining >= 0)
    /\ [][\A seconds \in TimerPayloads :
            updateTimer(seconds)
            => state' = [state EXCEPT !.timeRemaining =
                                        IF seconds >= 0 THEN seconds ELSE 0]]_vars

\* UPDATE_TIMER was dispatched with a negative payload
C11_Witness ==
    /\ last.type = "UPDATE_TIMER"
    /\ last.arg < 0
    /\ state.timeRemaining = 0

\* C12: RESET_TEST from any reachable state gives exactly the initial state
\* (no session, index 0, 600 seconds, inactive, no selections), and a second
\* RESET_TEST gives the same state again.
C12_ResetGivesInitialState ==
    [][resetTest
       => /\ state' = [currentSession |-> NoSession,
                       currentQuestionIndex |-> 0,
                       timeRemaining |-> 600,
                       isActive |-> FALSE,
                       currentSelections |-> <<>>]
          /\ RESET_TEST(state') = state']_vars

\* RESET_TEST was dispatched on a state with four selections
C12_Witness ==
    /\ last.type = "RESET_TEST"
    /\ last.n = MaxSelections
    /\ state = initialState

\* C13: START_TEST(session) from any state installs the session with index 0,
\* 600 seconds, isActive true and no selections; nothing of the previous
\* state carries over.
C13_StartInstallsSession ==
    [][startNewTest
       => state' = [currentSession |-> newSession(now),
                    currentQuestionIndex |-> 0,
                    timeRemaining |-> 600,
                    isActive |-> TRUE,
                    currentSelections |-> <<>>]]_vars

\* START_TEST was dispatched on a state with selections, after the clock moved
C13_Witness ==
    /\ last.type = "START_TEST"
    /\ last.n > 0
    /\ state.isActive
    /\ state.currentSession.startTime > 1

\* C14: LOAD_SESSION(session) installs the session as it is, recorded
\* userAnswers included, with index 0, 600 seconds, isActive false and no
\* selections, whatever the previous state was.
C14_LoadInstallsSession ==
    [][\A session \in LoadableSessions :
        loadSession(session)
        => state' = [currentSession |-> session,
                     currentQuestionIndex |-> 0,
                     timeRemaining |-> 600,
                     isActive |-> FALSE,
                     currentSelections |-> <<>>]]_vars

\* a session that holds an answer was loaded over a state with selections
C14_Witness ==
    /\ last.type = "LOAD_SESSION"
    /\ last.n > 0
    /\ ~state.currentSession.userAnswers[1].isNull

\* C15: with no session present, NEXT_QUESTION, SUBMIT_TEST and END_TEST
\* each leave the state unchanged, whatever the selections and the time.
C15_NoSessionNoOp ==
    [][(/\ last'.type \in {"NEXT_QUESTION", "SUBMIT_TEST", "END_TEST"}
        /\ ~HasSession(state))
       => state' = state]_vars

\* END_TEST found no session, four selections and a countdown that had moved
C15_Witness ==
    /\ last.type = "END_TEST"
    /\ ~HasSession(state)
    /\ Len(state.currentSelections) = MaxSelections
    /\ state.timeRemaining # TotalTime

\* C16: isAnswerCorrect is false for a null answer and for an answer whose
\* length is not 4; for an answer of 4 ids it is true exactly when every id
\* equals the id of correctOrder at the same position, so the right ids in
\* another order are incorrect.
C16_AnswerCorrectIffSameOrder ==
    (probe.fn = "isAnswerCorrect" /\ probe.done)
    => LET ua == probe.userAnswer
           c == probe.question.correctOrder
       IN  probe.out = IF ua.isNull \/ Len(ua.ids) # 4
                       THEN FALSE
                       ELSE \A i \in 1..4 : ua.ids[i] = c[i]

\* the four right ids in another order were judged incorrect
C16_Witness ==
    /\ probe.fn = "isAnswerCorrect"
    /\ probe.done
    /\ ~probe.out
    /\ ~probe.userAnswer.isNull
    /\ Len(probe.userAnswer.ids) = 4
    /\ Range(probe.userAnswer.ids) = Range(probe.question.correctOrder)

\* C17: calculateScore of a completed session is the number of slots for
\* which isAnswerCorrect holds, null slots not counted; of a session that is
\* not completed it is 0; it lies in 0..15.
C17_ScoreCountsCorrectAnswers ==
    (probe.fn = "calculateScore" /\ probe.done)
    => LET session == probe.session
           right == {i \in 1..Len(session.questions) :
                        /\ ~session.userAnswers[i].isNull
                        /\ isAnswerCorrect(session.questions[i], session.userAnswers[i])}
       IN  /\ probe.out = IF session.isCompleted THEN Cardinality(right) ELSE 0
           /\ probe.out \in 0..15

\* a session that is not completed holds correct answers and scores 0
C17_Witness ==
    /\ probe.fn = "calculateScore"
    /\ probe.done
    /\ ~probe.session.isCompleted
    /\ probe.out = 0
    /\ \E i \in 1..NumQuestions :
          isAnswerCorrect(probe.session.questions[i], probe.session.userAnswers[i])

\* the angle of a question that carries the id
AngleOf(question, id) ==
    question.angles[CHOOSE i \in 1..Len(question.angles) : question.angles[i].id = id]

WellFormedQuestion(q) ==
    LET ids == {q.angles[i].id : i \in 1..Len(q.angles)}
    IN  /\ validateQuestion(q)
        /\ Len(q.angles) = 4
        /\ Cardinality(ids) = 4
        /\ Len(q.correctOrder) = 4
        /\ Range(q.correctOrder) = ids
        /\ \A i \in 1..3 :
              AngleOf(q, q.correctOrder[i]).degrees < AngleOf(q, q.correctOrder[i + 1]).degrees

\* C18: every question generateQuestion returns satisfies validateQuestion:
\* it has exactly 4 angles with 4 pairwise different ids, correctOrder holds
\* exactly the ids of the angles, and correctOrder lists them by ascending
\* rounded degrees, whatever the display order of the angles.
\* The retry loop never fails for results of Math.random() in [0, 1), so the
\* fallback path is checked on what generateQuestion builds from the
\* fallback set with the same draws.
C18_GeneratedQuestionIsValid ==
    (probe.fn = "generateQuestion" /\ probe.done)
    => /\ WellFormedQuestion(probe.out)
       /\ WellFormedQuestion(questionFrom(probe.questionId, FallbackAngleSet, probe.stream, 1))

\* a generated question whose display order differs from its correctOrder
C18_Witness ==
    /\ probe.fn = "generateQuestion"
    /\ probe.done
    /\ [i \in 1..4 |-> probe.out.angles[i].id] # probe.out.correctOrder
    /\ \E i \in 1..4 : probe.out.angles[i].degrees # probe.out.angles[i].id[2]

\* C19 (as claimed): every angle of a generated question has degrees in
\* 0..180, rotation in 0..359, both arm lengths within the configured range,
\* and arm lengths that differ by at least a positive minimum.
C19_AngleRanges ==
    (probe.fn = "generateQuestion" /\ probe.done)
    => \A i \in 1..Len(probe.out.angles) :
         LET a == probe.out.angles[i]
         IN  /\ a.degrees >= 0 /\ a.degrees <= 18000
             /\ a.rotation >= 0 /\ a.rotation < 360
             /\ a.armLength1 >= ARM_LENGTH_MIN /\ a.armLength1 <= ARM_LENGTH_MAX
             /\ a.armLength2 >= ARM_LENGTH_MIN /\ a.armLength2 <= ARM_LENGTH_MAX
             /\ a.armLength1 # a.armLength2

\* the start times of the sessions of a list, greatest first
StartTimesDescending(sessions) ==
    LET sorted == sortDescending(sessions, startTimesOf(sessions))
    IN  [i \in 1..Len(sorted) |-> sorted[i].startTime]

\* the stored history holds at most M sessions, and once more than M were
\* saved it holds exactly M, with the M greatest start times saved
HistoryIsPruned ==
    LET M == getStorageSettings(storage).maxStoredTests
    IN  /\ Len(storage.history) <= M
        /\ Len(saved.sessions) > M
           => /\ Len(storage.history) = M
              /\ StartTimesDescending(storage.history)
                    = SubSeq(StartTimesDescending(saved.sessions), 1, M)

\* C20 (as claimed): after any sequence of successful saveTestSession calls
\* the stored history holds at most M sessions, and when more than M were
\* saved it holds exactly the M with the greatest startTime.
C20_HistoryKeepsMostRecent == HistoryIsPruned

\* C20 (amended): the same, after any sequence of saveTestSession calls none
\* of which made the retry that follows a QuotaExceededError; that retry
\* prunes the history to half the maximum before it appends.
C20_HistoryKeepsMostRecentWithoutRetry == ~saved.retried => HistoryIsPruned

\* more sessions than the maximum were saved, none by the retry, and one that
\* is older than a saved one was dropped
C20_Witness ==
    /\ ~saved.retried
    /\ Len(saved.sessions) > getStorageSettings(storage).maxStoredTests
    /\ Len(storage.history) = getStorageSettings(storage).maxStoredTests
    /\ \E i \in 1..Len(saved.sessions) :
          /\ saved.sessions[i].startTime < storage.history[1].startTime
          /\ saved.sessions[i].id \notin {storage.history[j].id : j \in 1..Len(storage.history)}

\* the stored history or current-session item is corrupted: a text that
\* JSON.parse rejects, or a value of the wrong kind
CorruptedHistory(st) == st.historyJson \in {"unparseable", "value"}

CorruptedCurrent(st) == st.current \in {UnparseableItem, JsonItem(JunkValue), JsonItem(NullEntry)}

\* C21: with localStorage missing, every call of it failing, or the stored
\* value corrupted, getTestHistory returns the empty list and
\* getCurrentSession returns null, and neither throws.
C21_BrokenStoreReadsEmpty ==
    /\ probe.fn = "getTestHistory" /\ (probe.before.mode # "ok" \/ CorruptedHistory(probe.before))
          => ~probe.threw /\ probe.out = <<>>
    /\ probe.fn = "getCurrentSession" /\ (probe.before.mode # "ok" \/ CorruptedCurrent(probe.before))
          => ~probe.threw /\ probe.out = NoSession

\* getTestHistory has read a history item that is no list from a working
\* localStorage, returned the empty list and removed the item
C21_Witness ==
    /\ probe.fn = "getTestHistory"
    /\ probe.before.mode = "ok"
    /\ probe.before.historyJson = "value"
    /\ probe.out = <<>>
    /\ ~probe.threw
    /\ storage.historyJson = "list"

\* C22 (as claimed): once the persistence effect has run for a completed
\* session the current-session slot is empty.
C22_CompletedClearsSnapshot ==
    last.effect = "clear" => storage.current = NoItem

\* C22 (amended): whenever the session becomes completed the persistence
\* effect calls clearCurrentSession, and once it has done so over a working
\* localStorage the current-session slot is empty.
C22_CompletedClearsSnapshotOfWorkingStore ==
    /\ [](last.effect = "clear" /\ storage.mode = "ok" => storage.current = NoItem)
    /\ [][~Frozen(state) /\ Frozen(state') => last'.effect = "clear"]_vars

\* the fifteenth NEXT_QUESTION has completed a session whose snapshot had
\* been saved, and the effect has emptied the slot
C22_Witness ==
    /\ last.type = "NEXT_QUESTION"
    /\ last.effect = "clear"
    /\ storage.mode = "ok"
    /\ Frozen(state)
    /\ state.currentQuestionIndex = LastQuestionIndex
    /\ AllAnswered(state)
    /\ storage.current = NoItem

\* C23: while a test is active and not completed every change of the
\* session runs saveCurrentSession, and once it has run over a working
\* localStorage the slot holds the current session, every recorded answer
\* included.
C23_SnapshotFollowsSession ==
    /\ [](last.effect = "save" /\ storage.mode = "ok"
            => storage.current = JsonItem(state.currentSession))
    /\ [][/\ HasSession(state')
           /\ state'.isActive
           /\ ~Frozen(state')
           /\ state'.currentSession # state.currentSession
           => last'.effect = "save"]_vars

\* NEXT_QUESTION has recorded the second answer and the slot holds it
C23_Witness ==
    /\ last.type = "NEXT_QUESTION"
    /\ last.effect = "save"
    /\ storage.mode = "ok"
    /\ state.currentQuestionIndex = 2
    /\ storage.current = JsonItem(state.currentSession)
    /\ storage.current.value.userAnswers[2] = Answer(<<1, 2, 3, 4>>)

Count(seq, e) == Cardinality({i \in 1..Len(seq) : seq[i] = e})

\* the two lists hold the same entries, each as often
SameEntries(a, b) ==
    /\ Len(a) = Len(b)
    /\ \A i \in 1..Len(a) : Count(a, a[i]) = Count(b, a[i])

\* a string id, a 15-element question list and a 15-element answer list
HasIdAndLists(e) ==
    /\ "isNull" \notin DOMAIN e
    /\ "junk" \notin DOMAIN e
    /\ typeOfField(e, "id") = "string"
    /\ typeOfField(e, "questions") = "array" /\ Len(e.questions) = NumQuestions
    /\ typeOfField(e, "userAnswers") = "array" /\ Len(e.userAnswers) = NumQuestions

HasTimeAndFlag(e) ==
    /\ typeOfField(e, "startTime") = "number"
    /\ typeOfField(e, "isCompleted") = "boolean"

AcceptedEntry(e) == HasIdAndLists(e) /\ HasTimeAndFlag(e)

\* getTestHistory has read a stored list from a working localStorage
ReadStoredList ==
    /\ probe.fn = "getTestHistory"
    /\ probe.before.mode = "ok"
    /\ probe.before.historyJson = "list"

\* C25 (as claimed): getTestHistory returns exactly the stored entries that
\* have a string id, a 15-element question list and a 15-element answer
\* list, and writes the list of those back when it rejected an entry.
C25_ValidIffIdAndLists ==
    ReadStoredList =>
        LET kept == SelectSeq(probe.before.history, HasIdAndLists)
        IN  /\ SameEntries(probe.out, kept)
            /\ storage.history = kept

\* C25 (amended): getTestHistory returns exactly the stored entries that
\* have a string id, a 15-element question list, a 15-element answer list,
\* a number startTime and a boolean isCompleted, and writes the list of
\* those back when it rejected an entry.
C25_ValidIffIdListsTimeAndFlag ==
    ReadStoredList =>
        LET kept == SelectSeq(probe.before.history, AcceptedEntry)
        IN  /\ SameEntries(probe.out, kept)
            /\ storage.history = kept
            /\ Len(kept) = Len(probe.before.history) => storage = probe.before

\* a stored list of a session and an entry with a string id and both lists
\* but no number startTime or no boolean isCompleted was read: the session is returned and written back alone
C25_Witness ==
    /\ ReadStoredList
    /\ Len(probe.before.history) = 2
    /\ \E i \in 1..2 :
          /\ HasIdAndLists(probe.before.history[i])
          /\ ~HasTimeAndFlag(probe.before.history[i])
          /\ AcceptedEntry(probe.before.history[3 - i])
          /\ probe.out = <<probe.before.history[3 - i]>>
    /\ storage.history = probe.out
    /\ storage # probe.before

\* that write failed with QuotaExceededError
FirstWriteOverQuota ==
    /\ probe.fn = "saveTestSession"
    /\ probe.outcome = "ok"
    /\ probe.before.quota # 0
    /\ quotaExceeded(probe.before,
                     cleanupOldSessions(
                         Append(getTestHistory(probe.before, "ok").value, probe.session),
                         getStorageSettings(probe.before).maxStoredTests))

\* the stored history is the sessions of the history before the call with
\* the greatest startTimes, at most half the maximum, and the new session
StoredPrunedPlusNew ==
    LET M == getStorageSettings(probe.before).maxStoredTests
        n == Len(storage.history)
        old == probe.before.history
    IN  /\ n >= 1
        /\ storage.history[n] = probe.session
        /\ n - 1 <= M \div 2
        /\ n - 1 <= Len(old)
        /\ StartTimesDescending(SubSeq(storage.history, 1, n - 1))
              = SubSeq(StartTimesDescending(old), 1, n - 1)

C27_IndexInRange ==
    state.currentQuestionIndex \in 0..(NumQuestions - 1)

\* NEXT_QUESTION was dispatched with four selections on the last question
\* and the index stayed there
C27_Witness ==
    /\ last.type = "NEXT_QUESTION"
    /\ last.n = MaxSelections
    /\ Frozen(state)
    /\ state.currentQuestionIndex = LastQuestionIndex
    /\ ~CurrentSlot(state).isNull

\* a commit of an action other than START_TEST that leads from an active
\* state to an active state of the session with the same id
SameActiveSession ==
    /\ state.isActive /\ HasSession(state)
    /\ state'.isActive /\ HasSession(state')
    /\ state'.currentSession.id = state.currentSession.id
    /\ last'.type # "START_TEST"

\* C28 (as claimed): no transition between two active states of the same
\* session increases timeRemaining.
C28_TimeNeverIncreases ==
    [][SameActiveSession => state'.timeRemaining <= state.timeRemaining]_vars

\* C28 (amended): no transition between two active states of the same
\* session increases timeRemaining unless it is an UPDATE_TIMER dispatched
\* directly with a payload above the current value; a tick of the provider's
\* interval lowers it by one.
C28_TimeNeverIncreasesButByPayload ==
    /\ [][SameActiveSession /\ state'.timeRemaining > state.timeRemaining
            => last'.type = "UPDATE_TIMER" /\ last'.arg = state'.timeRemaining]_vars
    /\ [][timerCallback /\ state'.isActive
            => state'.timeRemaining = state.timeRemaining - 1]_vars

\* the interval has ticked an active test from 2 seconds to 1
C28_Witness ==
    /\ last.type = "TIMER_TICK"
    /\ state.isActive
    /\ HasSession(state)
    /\ state.timeRemaining = 1
    /\ timer.armed
    /\ timer.captured = 1

\* C29: in every reachable state an active test has a session, and that
\* session is not completed.
C29_ActiveHasOpenSession ==
    state.isActive => HasSession(state) /\ ~Frozen(state)

\* a test started after a resumed session was ended is active on its
\* second question
C29_Witness ==
    /\ last.type = "NEXT_QUESTION"
    /\ state.isActive
    /\ HasSession(state)
    /\ ~Frozen(state)
    /\ state.currentQuestionIndex = 1
    /\ state.currentSession.startTime > 1

\* the degrees of the angles of a question, in the order of its correctOrder
DegreesInOrder(question) ==
    [i \in 1..Len(question.correctOrder) |->
        LET a == CHOOSE x \in {question.angles[k] : k \in 1..Len(question.angles)} :
                     x.id = question.correctOrder[i]
        IN  a.degrees]

\* C30: generateQuestion always returns a question, for a replaced
\* Math.random too: the retry loop gives up after at most 50 failed attempts,
\* a set found earlier is one that validateAngleSet accepts, and after 50
\* failed attempts the question is built from the angles 30, 35, 40 and 45
\* degrees.
C30_RetryIsBoundedWithFallback ==
    (probe.fn = "generateQuestion" /\ probe.done)
    => /\ probe.attempts <= MAX_GENERATION_ATTEMPTS
       /\ probe.out.id = probe.questionId
       /\ Len(probe.out.angles) = 4
       /\ Len(probe.out.correctOrder) = 4
       /\ probe.attempts < MAX_GENERATION_ATTEMPTS
          => validateAngleSet([i \in 1..4 |-> probe.out.correctOrder[i][2]])
       /\ probe.attempts = MAX_GENERATION_ATTEMPTS
          => DegreesInOrder(probe.out) = FallbackAngleSet

\* a question built from the fallback set after 50 failed attempts
C30_Witness ==
    /\ probe.fn = "generateQuestion"
    /\ probe.done
    /\ probe.attempts = MAX_GENERATION_ATTEMPTS
    /\ DegreesInOrder(probe.out) = FallbackAngleSet

\* C31: an UPDATE_TIMER, dispatched directly or by a tick of the interval
\* that leaves time, changes no field but timeRemaining: the session, the
\* question index, isActive and the selections stay as they are, also when
\* the new value is 0, so a session that is not completed is not completed
\* by the reducer's UPDATE_TIMER case.
C31_UpdateTimerKeepsTheRest ==
    [][last'.type \in {"UPDATE_TIMER", "TIMER_TICK"}
       => /\ state'.currentSession = state.currentSession
          /\ state'.currentQuestionIndex = state.currentQuestionIndex
          /\ state'.isActive = state.isActive
          /\ state'.currentSelections = state.currentSelections
          /\ Frozen(state') <=> Frozen(state)]_vars

\* UPDATE_TIMER brought the countdown of an active test with selections to 0
C31_Witness ==
    /\ last.type = "UPDATE_TIMER"
    /\ last.arg <= 0
    /\ state.timeRemaining = 0
    /\ state.isActive
    /\ ~Frozen(state)
    /\ last.n > 0
    /\ Len(state.currentSelections) = last.n

\* C32: END_TEST with a session present completes it: endTime is the time of
\* the dispatch, isCompleted is true, isActive is false and the selections
\* are empty, whatever timeRemaining and the selections were; every
\* userAnswers slot is left as it was, so the selections in progress are not
\* recorded.
C32_EndTestFreezesWithoutRecording ==
    [][(endTest /\ HasSession(state))
       => /\ state'.currentSession.endTime = now
          /\ state'.currentSession.isCompleted
          /\ ~state'.isActive
          /\ state'.currentSelections = <<>>
          /\ state'.currentSession.userAnswers = state.currentSession.userAnswers
          /\ state' = [state EXCEPT !.currentSession.endTime = now,
                                    !.currentSession.isCompleted = TRUE,
                                    !.isActive = FALSE,
                                    !.currentSelections = <<>>]]_vars

\* END_TEST ended an active test with selections in progress and a countdown
\* that had moved: the slot of the current question is still empty
C32_Witness ==
    /\ last.type = "END_TEST"
    /\ last.n > 0
    /\ Frozen(state)
    /\ state.currentSession.endTime = now
    /\ CurrentSlot(state) = NullAnswer
    /\ state.timeRemaining # TotalTime
    /\ state.currentQuestionIndex > 0

\* a session was installed, replaced or removed by the step
SessionChanges ==
    \/ startNewTest
    \/ \E session \in LoadableSessions : loadSession(session)
    \/ HasSession(state') # HasSession(state)
    \/ HasSession(state) /\ HasSession(state')
       /\ state'.currentSession.id # state.currentSession.id

\* C33: every transition that changes the current question (the question
\* index changes, or a session is installed, replaced or removed) leaves
\* currentSelections empty, and a transition that keeps the session writes
\* no userAnswers slot but the one of the question that was current, with
\* the selections that were made for it.
C33_SelectionsStayWithTheirQuestion ==
    [][/\ (SessionChanges \/ state'.currentQuestionIndex # state.currentQuestionIndex)
          => state'.currentSelections = <<>>
       /\ (HasSession(state) /\ ~SessionChanges)
          => \A i \in 1..NumQuestions :
               state'.currentSession.userAnswers[i] # state.currentSession.userAnswers[i]
               => /\ i = state.currentQuestionIndex + 1
                  /\ state'.currentSession.userAnswers[i] = Answer(state.currentSelections)]_vars

\* NEXT_QUESTION recorded four selections and moved on to the next question
C33_Witness ==
    /\ last.type = "NEXT_QUESTION"
    /\ last.n = MaxSelections
    /\ state.currentQuestionIndex > 0
    /\ state.currentSelections = <<>>
    /\ Len(state.currentSession.userAnswers[state.currentQuestionIndex].ids) = MaxSelections
    /\ CurrentSlot(state) = NullAnswer

\* the interval callback fires with at most one second left: it dispatches
\* UPDATE_TIMER and then SUBMIT_TEST
TimerSubmits == timerCallback /\ timer.captured <= 1

\* C34: whatever the interleaving of ticks and user actions, the timer
\* driver dispatches SUBMIT_TEST only on an active test whose session is not
\* completed, so never after NEXT_QUESTION on the last question, SUBMIT_TEST
\* or END_TEST completed it; its SUBMIT_TEST completes the session,
\* deactivates the test and clears the interval, and only START_TEST makes a
\* test active again: the driver submits at most once per started test.
C34_TimerSubmitsAtMostOnce ==
    [][/\ TimerSubmits
          => /\ state.isActive /\ HasSession(state) /\ ~Frozen(state)
             /\ Frozen(state') /\ ~state'.isActive /\ ~timer'.armed
       /\ (~state.isActive \/ Frozen(state)) => ~ENABLED timerCallback
       /\ (~state.isActive /\ state'.isActive) => startNewTest]_vars

\* the timer driver submitted a test with selections in progress
C34_Witness ==
    /\ last.type = "TIMER_SUBMIT"
    /\ last.n > 0
    /\ Frozen(state)
    /\ ~state.isActive
    /\ ~timer.armed
    /\ state.timeRemaining = 0

\* C35 (as claimed): for every base angle in 0..180 degrees generateAngleSet
\* returns exactly 4 values, all of them within 0..180 degrees, also after
\* the uniqueness adjustment.
C35_AngleSetInRange ==
    (probe.fn = "generateAngleSet" /\ probe.done)
    => /\ Len(probe.out) = 4
       /\ \A i \in 1..Len(probe.out) : probe.out[i] >= 0 /\ probe.out[i] <= 18000

\* C36: in every reachable state currentSelections holds at most 4 ids and
\* no id twice, whatever SELECT_ANGLE, DESELECT_ANGLE, CLEAR_SELECTIONS and
\* navigation actions were dispatched.
C36_SelectionsAreFewAndDistinct ==
    /\ Len(state.currentSelections) <= 4
    /\ \A i \in 1..Len(state.currentSelections) :
         \A j \in 1..Len(state.currentSelections) :
            state.currentSelections[i] = state.currentSelections[j] => i = j

\* the fourth pick of a later question filled the list with four ids
C36_Witness ==
    /\ last.type = "SELECT_ANGLE"
    /\ last.n = 3
    /\ Len(state.currentSelections) = 4
    /\ Cardinality(Range(state.currentSelections)) = 4
    /\ state.currentQuestionIndex > 0

\* a recorded answer of exactly 4 pairwise different ids
FullAnswer(a) ==
    /\ ~a.isNull
    /\ Len(a.ids) = 4
    /\ Cardinality(Range(a.ids)) = 4

\* the questions before the current one are answered, the others are not
AnsweredUpToCurrent(s) ==
    \A i \in 0..(NumQuestions - 1) :
        IF i < s.currentQuestionIndex
        THEN FullAnswer(s.currentSession.userAnswers[i + 1])
        ELSE s.currentSession.userAnswers[i + 1] = NullAnswer

\* C37: while a test started by START_TEST is active, userAnswers[i] is a
\* recorded answer of exactly 4 pairwise different ids for every i below
\* currentQuestionIndex and is empty for every other i; between two active
\* states of a test the question index stays or grows by one, so navigation
\* moves forward only and skips no question.
C37_AnsweredExactlyBelowIndex ==
    /\ [](state.isActive => HasSession(state) /\ AnsweredUpToCurrent(state))
    /\ [][(state.isActive /\ state'.isActive /\ ~startNewTest)
          => \/ state'.currentQuestionIndex = state.currentQuestionIndex
             \/ state'.currentQuestionIndex = state.currentQuestionIndex + 1]_vars

\* an active test on its third question, the two before it answered
C37_Witness ==
    /\ state.isActive
    /\ last.type = "NEXT_QUESTION"
    /\ state.currentQuestionIndex = 2
    /\ FullAnswer(state.currentSession.userAnswers[1])
    /\ FullAnswer(state.currentSession.userAnswers[2])
    /\ state.currentSession.userAnswers[3] = NullAnswer

C39_FailedSaveKeepsHistory ==
    (probe.fn = "saveTestSession" /\ ~probe.ok)
    => SameEntries(storage.history, probe.before.history)

\* C40: the current-session slot never holds a session with isCompleted
\* true: the persistence effect writes the slot only for an active test
\* whose session is not completed, and what it writes is that session.
C40_SnapshotNeverCompleted ==
    /\ [](storage.current # NoItem
            => storage.current.kind = "json" /\ ~storage.current.value.isCompleted)
    /\ [][(storage'.current # storage.current /\ storage'.current # NoItem)
          => /\ state'.isActive
             /\ ~Frozen(state')
             /\ storage'.current = JsonItem(state'.currentSession)]_vars

\* END_TEST completed a session with three answers over a localStorage that
\* had stopped working: the slot still holds its snapshot, not completed
C40_Witness ==
    /\ last.type = "END_TEST"
    /\ Frozen(state)
    /\ storage.mode # "ok"
    /\ storage.current # NoItem
    /\ storage.current.value.id = state.currentSession.id
    /\ storage.current.value.userAnswers[3] # NullAnswer
    /\ ~storage.current.value.isCompleted

====
